---- MODULE Spec2Model ----
(***************************************************************************)
(* Verification model of the polymr market-making bot.                     *)
(*                                                                         *)
(*  - Spec       : run_bot.py's OrderManager driven through submit_order,  *)
(*                 cancel_order, check_fills and cancel_stale against the  *)
(*                 two TradingClient implementations of the repository     *)
(*                 (SandboxTradingClient, RealTradingClient).              *)
(*  - WideSpec   : the same run with room for one more order, clock tick   *)
(*                 and queued WebSocket fill.                              *)
(*  - RiskSpec   : polymr's RiskManager called through its public          *)
(*                 operations while the clock advances.                    *)
(*  - EngineSpec : MarketMakerBot._main_loop and shutdown over the         *)
(*                 RiskManager and the OrderExecutor, the breakers being   *)
(*                 tripped from outside the loop.                          *)
(*  - QuoteSpec  : an OrderExecutor on its own, handed one quote per       *)
(*                 execute_quotes call.                                    *)
(*  - NonceSpec  : two threads inside get_nonce of one TradingClient,      *)
(*                 one statement at a time.                                *)
(*  - PricingSpec: one call of a function of pricing.py, of                *)
(*                 QuoteEngine.calculate_quotes or of the order pricing    *)
(*                 in run_bot.main's loop, over a grid of arguments.       *)
(*  - TaskSpec   : the asyncio tasks of MarketMakerBot, one step from an    *)
(*                 await to the next: _main_loop with its quote refresh    *)
(*                 and status update, and shutdown() run by the signal     *)
(*                 handler's task and by start()'s finally clause.         *)
(*  - MainSpec   : the loop of run_bot.main with its defaults: one step    *)
(*                 for cancel_stale at the head of a cycle and one for     *)
(*                 each market of the cycle.  MainLiveSpec adds weak       *)
(*                 fairness of both steps: the loop is "while True".       *)
(*  - CtlSpec    : BotController.start and stop called from two threads    *)
(*                 of the web server, and the loop threads they start,     *)
(*                 one statement at a time.                                *)
(*                                                                         *)
(* Floats are modelled by integers: order sizes and fill quantities are    *)
(* whole tokens, money is whole dollars, prices are cents, clock readings  *)
(* are whole seconds (time.time) or minutes (datetime.utcnow).  Ratios     *)
(* compared with a threshold are compared after multiplying out.           *)
(* Fields that no transition reads are left out of the records: an         *)
(* order's price, filled_price and the rebate of a fill in OrderManager,   *)
(* RiskState.last_api_failure, and the created_at / last_updated stamps    *)
(* of OrderExecutor's orders.  The venue hands out distinct order ids.     *)
(* check_fills is modelled one loop iteration at a time, since each        *)
(* iteration calls the venue and the method can end in a KeyError half     *)
(* way; every other handler is one step.                                   *)
(***************************************************************************)
EXTENDS Integers, Sequences, FiniteSets, TLC

(* ------------------------------ bounds -------------------------------- *)
MaxOrders == 1          \* submit_order calls in one run
MaxTime == 1            \* last reading of the clock
MaxWsFills == 1         \* fill events queued in OrderManager._ws_fills
MaxAdvances == 1        \* readings of datetime.utcnow() after the first
ClockStep == 5          \* minutes between two readings of datetime.utcnow()
MaxLosses == 3          \* cap of RiskState.consecutive_losses
MaxFailures == 5        \* cap of RiskState.api_failure_count
MaxPosts == 1           \* a quote refresh starts only below this many posts
MaxQuotes == 2          \* execute_quotes calls made on a bare OrderExecutor
MaxThreads == 2         \* Thread objects made by BotController.start in one run

(* ------------------------- program constants -------------------------- *)
DEFAULT_GAS_PRICE_GWEI == 30
max_exposure_usd == 1000          \* InventoryConfig
min_exposure_usd == -1000
max_position_size_usd == 500
max_single_order_usd == 100
max_inventory_skew_pct == 30      \* max_inventory_skew = 0.3
stop_loss_pct == 10               \* RiskConfig
stop_loss_cooldown_minutes == 30
initial_equity == 10000           \* RiskManager.__init__
max_consecutive == 3              \* check_consecutive_losses
consecutive_cooldown_minutes == 30
max_failures == 5                 \* record_api_failure
api_cooldown_minutes == 5
default_size == 10                \* QuotingConfig

Markets == {"m1", "m2"}
Callers == {1, 2}                \* threads calling BotController.start / stop
ThreadIds == 1..MaxThreads       \* the Thread objects BotController.start makes
Sides == {"BUY", "SELL"}
\* (market, side, size, expiry_secs) arguments of submit_order
SubmitArgs == { <<"m1", "BUY", 2, 2>>, <<"m2", "SELL", 2, 0>> }
MaxAges == {0}                   \* max_age arguments of cancel_stale
Absent == -1                     \* a key missing from a venue message
FillSizes == {Absent, 1, 3}      \* "size" of a WebSocket fill event
GasPrices == {DEFAULT_GAS_PRICE_GWEI}
OrderIds == 1..(MaxOrders + 2)   \* ids a caller may name
None == 0                        \* Python's None as a returned order

\* get_recent_trades results: newest-first lists of {side, size}
TradeLists ==
  { <<>>,
    << [side |-> "SELL", size |-> 1] >>,
    << [side |-> "SELL", size |-> Absent], [side |-> "BUY", size |-> 3] >> }

VARIABLES
  client,    \* the TradingClient: its class and its _nonce counter
  mgr,       \* the OrderManager object
  now,       \* time.time()
  cf,        \* the check_fills call in progress: its locals and loop position
  last,      \* the latest call made on OrderManager or on the engine
  rm,        \* RiskManager.state and RiskManager._circuit_breakers_triggered
  ex,        \* the OrderExecutor: _open_orders and _order_history
  venue,     \* the venue: orders posted to it so far
  utcnow,    \* datetime.utcnow(), in minutes
  bot,       \* MarketMakerBot: _running and settings.bot.test_mode
  resume_by, \* history: the latest resume time any breaker trip has set
  nc,        \* a TradingClient's _nonce and _nonce_lock, and the threads in get_nonce
  calc,      \* a call of a pricing or quoting function: its arguments and result
  tk,        \* the asyncio tasks of MarketMakerBot: where each is suspended
  mn,        \* run_bot.main: its open_orders dict and its place in the cycle
  bc         \* the BotController, its loop threads and the calls of start and stop

omvars == <<client, mgr, now, cf>>

engvars == <<rm, ex, venue, utcnow, bot, resume_by>>

auxvars == <<nc, calc, tk, mn, bc>>

(* ------------------------------ helpers ------------------------------- *)
Range(s) == { s[i] : i \in DOMAIN s }

InSeq(s, x) == \E i \in DOMAIN s : s[i] = x

\* dict.pop(key) / del dict[key] on an insertion-ordered dict of ids
Remove(s, x) == SelectSeq(s, LAMBDA y : y # x)

\* list.remove(x): drops the first element equal to x
RemoveFirst(s, x) ==
  LET i == CHOOSE k \in DOMAIN s : s[k] = x /\ \A j \in 1..(k - 1) : s[j] # x
  IN  SubSeq(s, 1, i - 1) \o SubSeq(s, i + 1, Len(s))

InvKey(side) == IF side = "BUY" THEN "YES" ELSE "NO"

\* no check_fills call is running
NoFrame == [ active |-> FALSE, market |-> "", items |-> <<>>, i |-> 0, t |-> 0,
             fills |-> <<>> ]

(* --------------------------- OrderManager ----------------------------- *)
\* OrderManager.__init__
NewOrderManager ==
  [ orders |-> <<>>,            \* every Order object accepted, by order id
    open |-> <<>>,              \* keys of self.open, in insertion order
    filled |-> <<>>,            \* self.filled, as order ids
    cancelled |-> <<>>,         \* self.cancelled, as order ids
    inventory |-> [mk \in Markets |-> [YES |-> 0, NO |-> 0]],
    placed |-> 0,
    filled_count |-> 0,
    cancelled_count |-> 0,
    gas_spent |-> 0,            \* in units of 0.008 USD per gwei
    ws_fills |-> <<>> ]         \* self._ws_fills

\* TradingClient.get_nonce: returns _nonce and post-increments it under the lock
get_nonce(c) == [nonce |-> c.nonce, client |-> [c EXCEPT !.nonce = @ + 1]]

\* What a client's submit_order can answer: the sandbox always accepts, the
\* real client returns the venue's response or raises.
SubmitResponses(c) ==
  IF c.kind = "sandbox" THEN {"success"} ELSE {"success", "rejected", "raise"}

\* What a client's cancel_order can answer: the sandbox returns True, the real
\* client returns the venue's verdict and turns an exception into False.
CancelResponses(c) == IF c.kind = "sandbox" THEN {TRUE} ELSE {TRUE, FALSE}

\* Gas charged for one transaction of the given weight (5 = submit, 3 = cancel)
GasCharge(c, gp, weight) == IF c.kind = "sandbox" THEN 0 ELSE gp * weight

\* submit_order counting the order as placed before the venue has answered
submit_order_mut(m, c, market, side, size, expiry_secs, t, resp, gp) ==
  LET n == get_nonce(c)
      oid == Len(m.orders) + 1
      counted == [ m EXCEPT !.placed = @ + 1 ]
  IN  IF resp = "success"
      THEN [ mgr |-> [ counted EXCEPT
                       !.orders = Append(@, [ market_id |-> market, side |-> side,
                                              size |-> size, status |-> "OPEN",
                                              created_at |-> t,
                                              expires_at |-> t + expiry_secs,
                                              nonce |-> n.nonce, filled_qty |-> 0 ]),
                       !.open = Append(@, oid),
                       !.gas_spent = @ + GasCharge(c, gp, 5) ],
             client |-> n.client, ret |-> oid ]
      ELSE [ mgr |-> counted, client |-> n.client, ret |-> None ]

\* OrderManager.submit_order
submit_order(m, c, market, side, size, expiry_secs, t, resp, gp) ==
  LET n == get_nonce(c)
      order == [ market_id |-> market, side |-> side, size |-> size,
                 status |-> "PENDING", created_at |-> t,
                 expires_at |-> t + expiry_secs, nonce |-> n.nonce,
                 filled_qty |-> 0 ]
      oid == Len(m.orders) + 1
  IN  IF resp = "success"
      THEN [ mgr |-> [ m EXCEPT
                       !.orders = Append(@, [order EXCEPT !.status = "OPEN"]),
                       !.open = Append(@, oid),
                       !.placed = @ + 1,
                       !.gas_spent = @ + GasCharge(c, gp, 5) ],
             client |-> n.client, ret |-> oid ]
      ELSE [ mgr |-> m, client |-> n.client, ret |-> None ]

\* cancel_order counting the cancellation before looking the order up
cancel_order_mut(m, c, order_id, venue_ok, gp) ==
  LET counted == [ m EXCEPT !.cancelled_count = @ + 1 ]
  IN  IF ~InSeq(m.open, order_id)
      THEN [ mgr |-> counted, ok |-> FALSE ]
      ELSE IF venue_ok
           THEN [ mgr |-> [ counted EXCEPT
                            !.open = Remove(@, order_id),
                            !.orders[order_id].status = "CANCELLED",
                            !.cancelled = Append(@, order_id),
                            !.gas_spent = @ + GasCharge(c, gp, 3) ],
                  ok |-> TRUE ]
           ELSE [ mgr |-> m, ok |-> FALSE ]

\* OrderManager.cancel_order
cancel_order(m, c, order_id, venue_ok, gp) ==
  IF ~InSeq(m.open, order_id)
  THEN [ mgr |-> m, ok |-> FALSE ]
  ELSE IF venue_ok
       THEN [ mgr |-> [ m EXCEPT
                        !.open = Remove(@, order_id),
                        !.orders[order_id].status = "CANCELLED",
                        !.cancelled = Append(@, order_id),
                        !.cancelled_count = @ + 1,
                        !.gas_spent = @ + GasCharge(c, gp, 3) ],
              ok |-> TRUE ]
       ELSE [ mgr |-> m, ok |-> FALSE ]

\* OrderManager.cancel_stale: venue_ok[oid] is the venue's answer to the
\* cancellation of order oid.  Returns the manager and the count.
RECURSIVE cancel_stale_loop(_, _, _, _, _, _, _, _)
cancel_stale_loop(m, c, keys, i, max_age, t, venue_ok, gp) ==
  IF i > Len(keys)
  THEN [ mgr |-> m, cancelled |-> 0 ]
  ELSE LET oid == keys[i]
           stale == t - m.orders[oid].created_at > max_age
           r == IF stale THEN cancel_order(m, c, oid, venue_ok[oid], gp)
                         ELSE [ mgr |-> m, ok |-> FALSE ]
           rest == cancel_stale_loop(r.mgr, c, keys, i + 1, max_age, t, venue_ok, gp)
       IN  [ mgr |-> rest.mgr,
             cancelled |-> rest.cancelled + (IF r.ok THEN 1 ELSE 0) ]

\* cancel_stale taking an order of age max_age as stale (>= for >)
cancel_stale_mut(m, c, max_age, t, venue_ok, gp) ==
  cancel_stale_loop(m, c, m.open, 1, max_age - 1, t, venue_ok, gp)

cancel_stale(m, c, max_age, t, venue_ok, gp) ==
  cancel_stale_loop(m, c, m.open, 1, max_age, t, venue_ok, gp)

\* OrderManager._trade_matches
trade_matches(trade, order) ==
  IF order.side = "BUY" /\ trade.side # "SELL" THEN FALSE
  ELSE IF order.side = "SELL" /\ trade.side # "BUY" THEN FALSE
  ELSE TRUE

\* float(d.get("size", default))
SizeOr(size, default) == IF size = Absent THEN default ELSE size

\* check_fills, WebSocket branch: one pass over a copy of _ws_fills.
\* st = [mgr, fills, raised, processed]
RECURSIVE ws_fills_loop(_, _, _)
ws_fills_loop(st, copy, i) ==
  IF i > Len(copy) THEN st
  ELSE
    LET fd == copy[i]
        m == st.mgr
    IN  IF InSeq(m.open, fd.order_id)
        THEN LET order == m.orders[fd.order_id]
                 qty == SizeOr(fd.size, order.size)
                 m2 == [ m EXCEPT
                         !.orders[fd.order_id].filled_qty = qty,
                         !.orders[fd.order_id].status = "FILLED",
                         !.filled = Append(@, fd.order_id),
                         !.open = Remove(@, fd.order_id),
                         !.filled_count = @ + 1,
                         !.inventory[order.market_id][InvKey(order.side)] = @ + order.size,
                         !.ws_fills = RemoveFirst(@, fd) ]
             IN  ws_fills_loop(
                   [ st EXCEPT !.mgr = m2,
                               !.fills = Append(@, [ order_id |-> fd.order_id,
                                                     side |-> order.side,
                                                     filled_qty |-> qty ]),
                               !.processed = TRUE ],
                   copy, i + 1)
        ELSE ws_fills_loop(st, copy, i + 1)

\* check_fills, recent-trades branch for order oid: the first matching trade
\* is taken as the order's fill.
RECURSIVE trades_loop(_, _, _, _)
trades_loop(st, oid, trades, k) ==
  IF k > Len(trades) THEN st
  ELSE
    LET m == st.mgr
        order == m.orders[oid]
        trade == trades[k]
    IN  IF trade_matches(trade, order)
        THEN LET m1 == [ m EXCEPT !.filled = Append(@, oid) ]
             IN  IF ~InSeq(m1.open, oid)
                 THEN [ st EXCEPT !.mgr = m1, !.raised = TRUE ]   \* KeyError
                 ELSE [ st EXCEPT
                        !.mgr = [ m1 EXCEPT
                                  !.open = Remove(@, oid),
                                  !.filled_count = @ + 1,
                                  !.inventory[order.market_id][InvKey(order.side)] = @ + order.size ],
                        !.fills = Append(@, [ order_id |-> oid,
                                              side |-> order.side,
                                              filled_qty |-> SizeOr(trade.size, 0) ]) ]
        ELSE trades_loop(st, oid, trades, k + 1)

\* a fill that takes the order's size out of the inventory
sandbox_fill_mut(st, oid) ==
  LET order == st.mgr.orders[oid]
  IN  [ st EXCEPT !.mgr.orders[oid].status = "FILLED",
                  !.mgr.filled = Append(@, oid),
                  !.mgr.open = Remove(@, oid),
                  !.mgr.inventory[order.market_id][InvKey(order.side)] = @ - order.size ]

\* check_fills, sandbox branch for order oid when random.random() < prob
sandbox_fill(st, oid) ==
  LET m == st.mgr
      order == m.orders[oid]
      m1 == [ m EXCEPT
              !.orders[oid].filled_qty = order.size,
              !.orders[oid].status = "FILLED",
              !.filled = Append(@, oid) ]
  IN  IF ~InSeq(m1.open, oid)
      THEN [ st EXCEPT !.mgr = m1, !.raised = TRUE ]   \* KeyError
      ELSE [ st EXCEPT
             !.mgr = [ m1 EXCEPT
                       !.open = Remove(@, oid),
                       !.filled_count = @ + 1,
                       !.inventory[order.market_id][InvKey(order.side)] = @ + order.size ],
             !.fills = Append(@, [ order_id |-> oid, side |-> order.side,
                                   filled_qty |-> order.size ]) ]

\* check_fills, body of the loop for one entry of list(self.open.items())
check_one(st, c, oid, t, hit, trades) ==
  LET m == st.mgr
      order == m.orders[oid]
  IN  IF t > order.expires_at
      THEN LET m1 == [ m EXCEPT !.orders[oid].status = "EXPIRED" ]
           IN  IF ~InSeq(m1.open, oid)
               THEN [ st EXCEPT !.mgr = m1, !.raised = TRUE ]   \* KeyError
               ELSE [ st EXCEPT !.mgr = [ m1 EXCEPT !.open = Remove(@, oid) ] ]
      ELSE IF c.kind = "sandbox"
           THEN IF hit THEN sandbox_fill(st, oid) ELSE st
           ELSE LET w == ws_fills_loop([ st EXCEPT !.processed = FALSE ],
                                       m.ws_fills, 1)
                IN  IF w.processed THEN w ELSE trades_loop(w, oid, trades, 1)

(* ---------------------------- RiskManager ----------------------------- *)
\* RiskState as RiskManager.__init__ builds it
NewRiskManager ==
  [ total_exposure_usd |-> 0,
    daily_pnl |-> 0,
    peak_equity |-> initial_equity,
    current_equity |-> initial_equity,
    consecutive_losses |-> 0,
    api_failure_count |-> 0,
    trading_paused |-> FALSE,
    pause_reason |-> "",
    pause_until |-> Absent,
    circuit_breakers_triggered |-> FALSE ]

Abs(x) == IF x < 0 THEN -x ELSE x

RECURSIVE SumSeq(_)
SumSeq(s) == IF s = <<>> THEN 0 ELSE Head(s) + SumSeq(Tail(s))

RECURSIVE SumAbs(_)
SumAbs(s) == IF s = <<>> THEN 0 ELSE Abs(Head(s)) + SumAbs(Tail(s))

RiskCheckResult(allowed, reason) == [ allowed |-> allowed, reason |-> reason ]

\* RiskManager._check_exposure
check_exposure(side, size, current_exposure) ==
  LET new_exposure == IF side = "BUY" THEN current_exposure + size
                      ELSE current_exposure - size
  IN  IF new_exposure > max_exposure_usd
      THEN RiskCheckResult(FALSE, "max exposure")
      ELSE IF new_exposure < min_exposure_usd
           THEN RiskCheckResult(FALSE, "min exposure")
           ELSE RiskCheckResult(TRUE, "Exposure within limits")

\* RiskManager._check_position_size
check_position_size(size) ==
  IF size > max_single_order_usd
  THEN RiskCheckResult(FALSE, "max single order")
  ELSE IF size > max_position_size_usd
       THEN RiskCheckResult(FALSE, "max position size")
       ELSE RiskCheckResult(TRUE, "Position size within limits")

\* RiskManager._check_inventory_skew; inventory is the dict's values.
\* abs(net / total) > max_skew is compared after multiplying out.
check_inventory_skew(inventory) ==
  IF inventory = <<>> \/ SumAbs(inventory) = 0
  THEN RiskCheckResult(TRUE, "No inventory")
  ELSE IF 100 * Abs(SumSeq(inventory)) > max_inventory_skew_pct * SumAbs(inventory)
       THEN RiskCheckResult(FALSE, "Inventory skew")
       ELSE RiskCheckResult(TRUE, "Inventory balanced")

\* check_pre_trade without its first test
check_pre_trade_mut(r, side, size, current_exposure, inventory) ==
  IF ~check_exposure(side, size, current_exposure).allowed
  THEN check_exposure(side, size, current_exposure)
  ELSE IF ~check_position_size(size).allowed
       THEN check_position_size(size)
       ELSE IF ~check_inventory_skew(inventory).allowed
            THEN check_inventory_skew(inventory)
            ELSE RiskCheckResult(TRUE, "All checks passed")

\* check_pre_trade testing the position size before the exposure
check_pre_trade_order_mut(r, side, size, current_exposure, inventory) ==
  IF r.trading_paused
  THEN RiskCheckResult(FALSE, "Trading paused")
  ELSE IF ~check_position_size(size).allowed
       THEN check_position_size(size)
       ELSE IF ~check_exposure(side, size, current_exposure).allowed
            THEN check_exposure(side, size, current_exposure)
            ELSE IF ~check_inventory_skew(inventory).allowed
                 THEN check_inventory_skew(inventory)
                 ELSE RiskCheckResult(TRUE, "All checks passed")

\* RiskManager.check_pre_trade
check_pre_trade(r, side, size, current_exposure, inventory) ==
  IF r.trading_paused
  THEN RiskCheckResult(FALSE, "Trading paused")
  ELSE IF ~check_exposure(side, size, current_exposure).allowed
       THEN check_exposure(side, size, current_exposure)
       ELSE IF ~check_position_size(size).allowed
            THEN check_position_size(size)
            ELSE IF ~check_inventory_skew(inventory).allowed
                 THEN check_inventory_skew(inventory)
                 ELSE RiskCheckResult(TRUE, "All checks passed")

\* RiskManager._trigger_circuit_breaker
trigger_circuit_breaker(r, reason, pause_until) ==
  [ r EXCEPT !.trading_paused = TRUE,
             !.pause_reason = reason,
             !.pause_until = pause_until,
             !.circuit_breakers_triggered = TRUE ]

\* check_daily_loss_limit pausing only above the limit
check_daily_loss_limit_mut(r, daily_pnl, t) ==
  IF r.peak_equity > 0 /\ 100 * (-daily_pnl) > stop_loss_pct * r.peak_equity
  THEN [ rm |-> trigger_circuit_breaker(r, "Daily loss limit reached",
                                        t + stop_loss_cooldown_minutes),
         allowed |-> FALSE ]
  ELSE [ rm |-> r, allowed |-> TRUE ]

\* RiskManager.check_daily_loss_limit at time t.  loss_pct >= stop_loss_pct/100
\* is compared after multiplying out (peak_equity > 0 on that branch).
check_daily_loss_limit(r, daily_pnl, t) ==
  IF r.peak_equity > 0 /\ 100 * (-daily_pnl) >= stop_loss_pct * r.peak_equity
  THEN [ rm |-> trigger_circuit_breaker(r, "Daily loss limit reached",
                                        t + stop_loss_cooldown_minutes),
         allowed |-> FALSE ]
  ELSE [ rm |-> r, allowed |-> TRUE ]

\* check_consecutive_losses tripping only above max_consecutive
check_consecutive_losses_mut(r, is_loss, t) ==
  LET counted == [ r EXCEPT !.consecutive_losses = IF is_loss THEN @ + 1 ELSE 0 ]
  IN  IF counted.consecutive_losses > max_consecutive
      THEN [ rm |-> trigger_circuit_breaker(counted, "consecutive losses",
                                            t + consecutive_cooldown_minutes),
             allowed |-> FALSE ]
      ELSE [ rm |-> counted, allowed |-> TRUE ]

\* RiskManager.check_consecutive_losses at time t
check_consecutive_losses(r, is_loss, t) ==
  LET counted == [ r EXCEPT !.consecutive_losses = IF is_loss THEN @ + 1 ELSE 0 ]
  IN  IF counted.consecutive_losses >= max_consecutive
      THEN [ rm |-> trigger_circuit_breaker(counted, "consecutive losses",
                                            t + consecutive_cooldown_minutes),
             allowed |-> FALSE ]
      ELSE [ rm |-> counted, allowed |-> TRUE ]

\* record_api_failure tripping only above max_failures
record_api_failure_mut(r, t) ==
  LET counted == [ r EXCEPT !.api_failure_count = @ + 1 ]
  IN  IF counted.api_failure_count > max_failures
      THEN trigger_circuit_breaker(counted, "API failures", t + api_cooldown_minutes)
      ELSE counted

\* RiskManager.record_api_failure at time t
record_api_failure(r, t) ==
  LET counted == [ r EXCEPT !.api_failure_count = @ + 1 ]
  IN  IF counted.api_failure_count >= max_failures
      THEN trigger_circuit_breaker(counted, "API failures", t + api_cooldown_minutes)
      ELSE counted

\* record_api_success taking a working API as the end of the pause
record_api_success_mut(r) ==
  [ r EXCEPT !.api_failure_count = 0, !.trading_paused = FALSE ]

\* RiskManager.record_api_success
record_api_success(r) == [ r EXCEPT !.api_failure_count = 0 ]

\* RiskManager.update_equity
update_equity(r, new_equity, pnl) ==
  [ r EXCEPT !.current_equity = new_equity,
             !.daily_pnl = pnl,
             !.peak_equity = IF new_equity > @ THEN new_equity ELSE @ ]

\* check_circuit_breakers ending a pause without clearing its reason and time
check_circuit_breakers_mut(r, t) ==
  IF r.trading_paused /\ r.pause_until # Absent
  THEN IF t >= r.pause_until
       THEN [ rm |-> [ r EXCEPT !.trading_paused = FALSE,
                                !.circuit_breakers_triggered = FALSE ],
              results |-> 0 ]
       ELSE [ rm |-> r, results |-> 1 ]
  ELSE [ rm |-> r, results |-> 0 ]

\* RiskManager.check_circuit_breakers at time t; results is len(results)
check_circuit_breakers(r, t) ==
  IF r.trading_paused /\ r.pause_until # Absent
  THEN IF t >= r.pause_until
       THEN [ rm |-> [ r EXCEPT !.trading_paused = FALSE,
                                !.pause_reason = "",
                                !.pause_until = Absent,
                                !.circuit_breakers_triggered = FALSE ],
              results |-> 0 ]
       ELSE [ rm |-> r, results |-> 1 ]
  ELSE [ rm |-> r, results |-> 0 ]

(* --------------------------- OrderExecutor ---------------------------- *)
\* market["token_ids"] of the one active market; venue order ids are 1, 2, ...
TokenIds == [YES |-> 101, NO |-> 102]

\* OrderExecutor.__init__: _open_orders as (ids in insertion order, id -> Order)
NewOrderExecutor == [ open_ids |-> <<>>, orders |-> <<>>, order_history |-> <<>> ]

Quote(token_id, side, price, size) ==
  [ token_id |-> token_id, side |-> side, price |-> price, size |-> size ]

\* OrderExecutor._should_replace: relative change > 0.005 or > 0.1
should_replace(existing, new_quote) ==
  \/ 1000 * Abs(existing.price - new_quote.price) > 5 * existing.price
  \/ 10 * Abs(existing.size - new_quote.size) > existing.size

\* OrderExecutor._plan_cancel_replace for a list of one quote;
\* existing_orders.get(token_id) looks the token id up among the order ids
plan_cancel_replace(e, quote) ==
  LET found == InSeq(e.open_ids, quote.token_id)
      existing == e.orders[quote.token_id]
  IN  IF found /\ existing.side = quote.side
      THEN IF should_replace(existing, quote)
           THEN [ to_cancel |-> <<existing.order_id>>, to_place |-> <<quote>> ]
           ELSE [ to_cancel |-> <<>>, to_place |-> <<>> ]
      ELSE [ to_cancel |-> <<>>, to_place |-> <<quote>> ]

\* one round of OrderExecutor._cancel_orders
cancel_one(e, order_id, venue_ok) ==
  IF venue_ok /\ InSeq(e.open_ids, order_id)
  THEN [ e EXCEPT !.orders[order_id].status = "cancelled",
                  !.order_history = Append(@, order_id),
                  !.open_ids = Remove(@, order_id) ]
  ELSE e

\* one round of OrderExecutor._place_orders; v is the venue, resp its answer
place_one(e, v, quote, resp) ==
  LET posted == [ v EXCEPT !.posts = @ + 1 ]
      order_id == Len(e.orders) + 1
  IN  IF resp = "success"
      THEN [ ex |-> [ e EXCEPT
                      !.orders = Append(@, [ order_id |-> order_id,
                                             token_id |-> quote.token_id,
                                             side |-> quote.side,
                                             price |-> quote.price,
                                             size |-> quote.size,
                                             filled_size |-> 0,
                                             status |-> "open" ]),
                      !.open_ids = Append(@, order_id) ],
             venue |-> posted ]
      ELSE [ ex |-> e, venue |-> posted ]

\* OrderExecutor.execute_quotes([quote], existing_orders)
execute_quotes(e, v, quote, cancel_ok, resp) ==
  LET plan == plan_cancel_replace(e, quote)
      e1 == IF plan.to_cancel # <<>>
            THEN cancel_one(e, plan.to_cancel[1], cancel_ok) ELSE e
  IN  IF plan.to_place # <<>>
      THEN place_one(e1, v, quote, resp)
      ELSE [ ex |-> e1, venue |-> v ]

\* OrderExecutor.cancel_all_orders
cancel_all_orders(e, venue_ok) ==
  IF venue_ok
  THEN [ e EXCEPT
         !.orders = [ o \in DOMAIN @ |->
                        IF InSeq(e.open_ids, o)
                        THEN [ @[o] EXCEPT !.status = "cancelled" ] ELSE @[o] ],
         !.order_history = @ \o e.open_ids,
         !.open_ids = <<>> ]
  ELSE e

\* OrderExecutor.update_order_status: the loop over list(_open_orders.items())
\* from position i; status[o] is the filled_size the venue reports for o
RECURSIVE update_order_status_loop(_, _, _, _)
update_order_status_loop(e, items, i, status) ==
  IF i > Len(items) THEN e
  ELSE LET o == items[i]
           order == e.orders[o]
           e1 == IF status[o] > order.filled_size
                 THEN IF status[o] >= order.size
                      THEN [ e EXCEPT !.orders[o].filled_size = status[o],
                                      !.orders[o].status = "filled",
                                      !.order_history = Append(@, o),
                                      !.open_ids = Remove(@, o) ]
                      ELSE [ e EXCEPT !.orders[o].filled_size = status[o] ]
                 ELSE e
       IN  update_order_status_loop(e1, items, i + 1, status)

update_order_status(e, status) == update_order_status_loop(e, e.open_ids, 1, status)

(* --------------------- get_nonce, thread by thread -------------------- *)
MaxCalls == 3            \* get_nonce calls started on one client
Threads == {1, 2}        \* threads calling get_nonce on the same client
NoThread == 0            \* the holder of a free lock

\* __init__: self._nonce = 0 and self._nonce_lock = threading.Lock();
\* every thread is outside get_nonce; n and tmp are a thread's locals
NewNonceClient ==
  [ nonce  |-> 0,
    lock   |-> NoThread,
    pc     |-> [t \in Threads |-> "idle"],
    n      |-> [t \in Threads |-> Absent],
    tmp    |-> [t \in Threads |-> Absent],
    calls  |-> 0,
    issued |-> <<>>,       \* history: the values read into n, in order
    handed |-> <<>> ]      \* history: the values returned, in order

\* no pricing call has been made
NoCall == [fn |-> "none", args |-> <<>>, done |-> FALSE, out |-> <<>>]

\* MarketMakerBot's tasks before start(): the task of start() and _main_loop
\* (loop: where it is suspended; quotes: those of the refresh still to be
\* executed; items: those of update_order_status still to be asked about;
\* refreshes: the _refresh_quotes calls so far)
\* and the shutdown() calls of the signal handler's task and of start()'s
\* finally clause (sd: where each is suspended; ok: cancel-all succeeded)
NoTasks ==
  [ loop |-> "while", quotes |-> <<>>, items |-> <<>>, refreshes |-> 0,
    sd |-> [signal |-> "idle", main |-> "idle"],
    ok |-> [signal |-> FALSE, main |-> FALSE] ]

\* run_bot.main before its loop: open_orders with every slot None, and the
\* place in the cycle (0: before cancel_stale; k: before the k-th market)
NoMain == [ open_orders |-> [mk \in Markets |-> [BUY |-> None, SELL |-> None]],
            pos |-> 0 ]

\* BotController.__init__, with no call of start or stop under way:
\* _bot_thread (None or the id of a Thread), _stop_event, where each Thread
\* made by start is ("none": not made, "new": made and not started, "setup":
\* before the while loop, "test": at the loop's test, "cycle": in the loop's
\* body, "dead"), the Threads made so far, where each caller is, the Thread
\* its stop joined, and what its call returned
NewBotController ==
  [ bot_thread |-> None, stop_event |-> FALSE,
    thread |-> [t \in ThreadIds |-> "none"], spawned |-> 0,
    pc |-> [c \in Callers |-> "idle"], joined |-> [c \in Callers |-> None],
    ret |-> [c \in Callers |-> "none"] ]

\* the mutual exclusion of "with self._nonce_lock" left out
lock_free_mut(l) == TRUE

\* "with self._nonce_lock" is entered only while no thread holds the lock
lock_free(l) == l = NoThread

\* with self._nonce_lock:  (entry)
nonce_acquire(c, t) == [c EXCEPT !.lock = t, !.pc[t] = "read", !.calls = @ + 1]

\* n = self._nonce
nonce_read(c, t) ==
  [c EXCEPT !.n[t] = c.nonce, !.issued = Append(@, c.nonce), !.pc[t] = "load"]

\* self._nonce += 1, its load
nonce_load(c, t) == [c EXCEPT !.tmp[t] = c.nonce, !.pc[t] = "store"]

\* self._nonce += 1, its store
nonce_store(c, t) == [c EXCEPT !.nonce = c.tmp[t] + 1, !.pc[t] = "release"]

\* with self._nonce_lock:  (exit)
nonce_release(c, t) ==
  [c EXCEPT !.lock = IF @ = t THEN NoThread ELSE @, !.pc[t] = "return"]

\* return n
nonce_return(c, t) == [c EXCEPT !.handed = Append(@, c.n[t]), !.pc[t] = "idle"]

(* ------------------- prices and sizes of the quotes ------------------- *)
\* Prices are counted in ticks of 0.0001 (the 4 decimals run_bot rounds
\* to, and one basis point of 1); a price is strictly inside (0,1) when
\* its tick count is strictly inside (0, One).
One == 10000

\* Python's round(n / d) for d > 0: to the nearest integer, ties to even
Round(n, d) ==
  LET q == n \div d
      r == n - q * d
  IN  IF 2 * r < d THEN q
      ELSE IF 2 * r > d THEN q + 1
      ELSE IF q % 2 = 0 THEN q ELSE q + 1

Min(a, b) == IF a < b THEN a ELSE b

Max(a, b) == IF a > b THEN a ELSE b

\* QuotingConfig
quoting_min_spread_bps == 10
quoting_max_spread_bps == 50
min_size == 1
max_size == 100

\* QuoteEngine._calculate_spread; volatility and the market's spread in ticks
quote_engine_spread(volatility, spread) ==
  LET volatility_spread == volatility \div 2
      current_spread_bps == spread
  IN  Min(Max(Max(quoting_min_spread_bps, volatility_spread), current_spread_bps),
          quoting_max_spread_bps)

\* QuoteEngine._calculate_inventory_skew, in thousandths (max_exposure is 1000)
calculate_inventory_skew(inventory, total_exposure_usd) ==
  IF inventory = <<>> \/ total_exposure_usd = 0 THEN 0
  ELSE LET net_exposure == SumSeq(inventory)
           max_exposure == Max(Abs(max_exposure_usd), Abs(min_exposure_usd))
           skew == IF max_exposure > 0 THEN (1000 * net_exposure) \div max_exposure ELSE 0
       IN  Max(-1000, Min(1000, skew))

\* QuoteEngine._calculate_size: the second branch can never be taken
calculate_size(total_exposure_usd) ==
  LET size == Min(default_size, max_size)
      size1 == IF 2 * Abs(total_exposure_usd) > max_exposure_usd THEN size \div 2 ELSE size
  IN  Max(size1, min_size)

\* the prices of calculate_quotes are fractions of QuoteDen:
\* mid / One * (1 - spread_bps / 20000 -+ skew / 10000)
QuoteDen == One * 20000

\* QuoteEngine.calculate_quotes: the YES and the NO quote; price over QuoteDen
calculate_quotes(mid, volatility, spread, inventory, total_exposure_usd) ==
  LET spread_bps == quote_engine_spread(volatility, spread)
      skew == calculate_inventory_skew(inventory, total_exposure_usd)
      yes_bid == mid * (20000 - spread_bps - 2 * skew)
      no_bid == (One - mid) * (20000 - spread_bps + 2 * skew)
      size == calculate_size(total_exposure_usd)
  IN  << [side |-> "BUY", price |-> yes_bid, size |-> size],
         [side |-> "SELL", price |-> no_bid, size |-> size] >>

\* QuoteEngine.should_rebalance; the skew is in thousandths
should_rebalance(inventory, total_exposure_usd) ==
  Abs(calculate_inventory_skew(inventory, total_exposure_usd)) > 10 * max_inventory_skew_pct

\* the prices of calculate_rebalance_quotes are fractions of RebalanceDen:
\* mid / One * (1 - max_spread_bps * 1.5 / 2 / 10000 -+ skew * 0.2)
RebalanceDen == One * 100000

\* QuoteEngine._calculate_rebalance_size
calculate_rebalance_size == Min(default_size * 2, max_size * 2)

\* calculate_rebalance_quotes quoting the other side of both tokens as soon
\* as there is a skew
calculate_rebalance_quotes_mut(mid, inventory, total_exposure_usd) ==
  LET skew == calculate_inventory_skew(inventory, total_exposure_usd)
      half_spread == (quoting_max_spread_bps * 15) \div 2
  IN  << [side |-> IF skew # 0 THEN "SELL" ELSE "BUY",
          price |-> mid * (100000 - half_spread - 20 * skew),
          size |-> calculate_rebalance_size],
         [side |-> IF skew # 0 THEN "BUY" ELSE "SELL",
          price |-> (One - mid) * (100000 - half_spread + 20 * skew),
          size |-> calculate_rebalance_size] >>

\* QuoteEngine.calculate_rebalance_quotes: the YES and the NO quote; price
\* over RebalanceDen
calculate_rebalance_quotes(mid, inventory, total_exposure_usd) ==
  LET skew == calculate_inventory_skew(inventory, total_exposure_usd)
      half_spread == (quoting_max_spread_bps * 15) \div 2
  IN  << [side |-> IF skew > 0 THEN "SELL" ELSE "BUY",
          price |-> mid * (100000 - half_spread - 20 * skew),
          size |-> calculate_rebalance_size],
         [side |-> IF skew < 0 THEN "BUY" ELSE "SELL",
          price |-> (One - mid) * (100000 - half_spread + 20 * skew),
          size |-> calculate_rebalance_size] >>

\* run_bot.main with its defaults: capital 60 and the preset AGGRO["3"]
capital == 60
preset_pct == 30
preset_min_bps == 3
preset_max_bps == 20
preset_inventory_cap == 40
order_size_usd == (capital * preset_pct) \div 100
max_inv_usd == (capital * preset_inventory_cap) \div 100

\* token_qty = order_size_usd / bid if bid > 0 else 0, in thousandths of a
\* token; what is left of the quotient below one thousandth is dropped
token_qty_of(bid) == IF bid > 0 THEN (order_size_usd * One * 1000) \div bid ELSE 0

\* the body of main's loop over the markets, from the read of the best bid
\* to the two submit_order calls: the (side, price, size) submitted.
\* bids and asks are the price levels of the book, yes_v and no_v the
\* value of the inventory, buy_open and sell_open the open_orders slots.
tick_orders(bids, asks, base_spread, yes_v, no_v, buy_open, sell_open) ==
  LET bid == IF bids # <<>> THEN bids[1] ELSE One \div 2
      token_qty == token_qty_of(bid)
      spread_adj == (Abs(yes_v - no_v) * 10) \div (capital + 1)
      spread == Max(2, base_spread + spread_adj)
      buy_0 == Round(10 * bid - 3 * spread, 10)
      sell_0 == Round(10 * (IF asks # <<>> THEN asks[1] ELSE bid) + 3 * spread, 10)
      buy_p == IF buy_0 <= 0 \/ buy_0 >= One THEN Round(99 * bid, 100) ELSE buy_0
      sell_p == IF sell_0 <= 0 \/ sell_0 >= One THEN Round(101 * bid, 100) ELSE sell_0
      buys == IF ~buy_open /\ yes_v + order_size_usd <= max_inv_usd
              THEN << [side |-> "BUY", price |-> buy_p, size |-> token_qty] >> ELSE <<>>
      sells == IF ~sell_open /\ no_v + order_size_usd <= max_inv_usd
               THEN << [side |-> "SELL", price |-> sell_p, size |-> token_qty] >> ELSE <<>>
  IN  buys \o sells

\* get_orderbook: the midpoint of the book it returns
book_midpoint(bids, asks) ==
  IF bids # <<>> /\ asks # <<>> THEN (bids[1] + asks[1]) \div 2 ELSE One \div 2

(* ----------------------------- pricing.py ----------------------------- *)
\* Spreads are whole basis points where the code makes them ints
\* (spread_bps, the result of calculate_optimal_spread) and tenths of a
\* basis point where it takes floats (market_spread_bps, volatility_bps).
\* A fill rate and a skew are counted in thousandths, a positioning factor
\* in hundredths when it is an argument.
TARGET_REBATE_BPS == 31
MIN_REBATE_SPREAD_BPS == 10
BUY_STOP_THRESHOLD == 150
SELL_STOP_THRESHOLD == -150

\* PricingConfig(): base_positioning and skew_sensitivity in hundredths
PricingConfig ==
  [ min_spread_bps |-> 15,
    max_spread_bps |-> 80,
    vol_multiplier |-> 2,
    base_positioning |-> 50,
    skew_sensitivity |-> 30,
    buy_stop_threshold |-> BUY_STOP_THRESHOLD,
    sell_stop_threshold |-> SELL_STOP_THRESHOLD,
    min_rebate_spread_bps |-> MIN_REBATE_SPREAD_BPS ]

\* Python's int(n / d) for d > 0: the fraction is cut off towards zero
Trunc(n, d) == IF n >= 0 THEN n \div d ELSE -((-n) \div d)

\* calculate_optimal_spread: the widening or tightening by the fill rate
fill_adjustment(fill_rate) ==
  IF fill_rate > 400 THEN 15
  ELSE IF fill_rate > 300 THEN 10
  ELSE IF fill_rate > 200 THEN 5
  ELSE IF fill_rate < 100 THEN -3
  ELSE 0

\* calculate_optimal_spread returning the spread before it is clamped
calculate_optimal_spread_mut(market_spread_bps, volatility_bps, fill_rate, config) ==
  IF market_spread_bps < 10 * config.min_rebate_spread_bps THEN 0
  ELSE Max(Trunc(volatility_bps * config.vol_multiplier, 10), Trunc(TARGET_REBATE_BPS * 5, 10))
         + fill_adjustment(fill_rate)

calculate_optimal_spread(market_spread_bps, volatility_bps, fill_rate, config) ==
  LET vol_spread == Trunc(volatility_bps * config.vol_multiplier, 10)
      min_economic_spread == Trunc(TARGET_REBATE_BPS * 5, 10)
      optimal_spread == Max(vol_spread, min_economic_spread) + fill_adjustment(fill_rate)
  IN  IF market_spread_bps < 10 * config.min_rebate_spread_bps THEN 0
      ELSE Max(config.min_spread_bps, Min(optimal_spread, config.max_spread_bps))

\* a positioning factor returned by calculate_positioning_factor is a
\* fraction of PosDen
PosDen == 40 * One

\* calculate_positioning_factor without its clamp to [0.2, 0.8]
calculate_positioning_factor_mut(skew, spread_bps, config) ==
  40 * 100 * config.base_positioning + 4 * Abs(skew) * config.skew_sensitivity
    - Min(PosDen \div 10, 500 * (spread_bps - config.min_spread_bps))

calculate_positioning_factor(skew, spread_bps, config) ==
  LET base_pos == 40 * 100 * config.base_positioning
      skew_adjustment == 4 * Abs(skew) * config.skew_sensitivity
      \* min(1.0, (spread_bps - min_spread_bps) / 80) * 0.1
      spread_term == Min(PosDen \div 10, 500 * (spread_bps - config.min_spread_bps))
      positioning == base_pos + skew_adjustment - spread_term
  IN  Max(2 * (PosDen \div 10), Min(8 * (PosDen \div 10), positioning))

\* str.upper on the spellings of a side
Upper(side) ==
  IF side \in {"BUY", "buy", "Buy"} THEN "BUY"
  ELSE IF side \in {"SELL", "sell"} THEN "SELL"
  ELSE "HOLD"

\* should_quote_side stopping at the threshold itself
should_quote_side_mut(side, skew, config) ==
  ~ \/ Upper(side) = "BUY" /\ skew >= config.buy_stop_threshold
    \/ Upper(side) = "SELL" /\ skew <= config.sell_stop_threshold

should_quote_side(side, skew, config) ==
  LET side1 == Upper(side)
  IN  IF side1 = "BUY"
      THEN IF skew > config.buy_stop_threshold THEN FALSE ELSE TRUE
      ELSE IF side1 = "SELL"
           THEN IF skew < config.sell_stop_threshold THEN FALSE ELSE TRUE
           ELSE TRUE

\* mid is counted in hundredths of a tick (millionths of 1): Micro per tick
Micro == 100

\* the two prices placed a full spread_bps from mid, whatever the
\* positioning factor
quote_prices_validated_mut(mid, spread_bps, positioning_factor, skew) ==
  << Round(mid - 100 * spread_bps + 5 * skew, Micro),
     Round(mid + 100 * spread_bps - 5 * skew, Micro) >>

\* the two prices of calculate_quote_prices before the final bounds check:
\* round(mid -+ half_spread +- skew_adjustment, 4), replaced by
\* round(mid * 0.99, 4) / round(mid * 1.01, 4) when outside (0,1).
\* round works on the exact sum; ties go to the even tick.
quote_prices_validated(mid, spread_bps, positioning_factor, skew) ==
  LET half_spread == spread_bps * positioning_factor
      skew_adjustment == 5 * skew
      buy_0 == Round(mid - half_spread + skew_adjustment, Micro)
      sell_0 == Round(mid + half_spread - skew_adjustment, Micro)
      buy_price == IF buy_0 <= 0 \/ buy_0 >= One THEN Round(99 * mid, 100 * Micro) ELSE buy_0
      sell_price == IF sell_0 <= 0 \/ sell_0 >= One THEN Round(101 * mid, 100 * Micro) ELSE sell_0
  IN  << buy_price, sell_price >>

\* calculate_quote_prices without the final bounds check
calculate_quote_prices_mut(mid, spread_bps, positioning_factor, skew) ==
  IF spread_bps <= 0 \/ mid <= 0 \/ mid >= One * Micro THEN <<>>
  ELSE quote_prices_validated(mid, spread_bps, positioning_factor, skew)

\* calculate_quote_prices: <<buy_price, sell_price>> in ticks, or <<>> for
\* (None, None)
calculate_quote_prices(mid, spread_bps, positioning_factor, skew) ==
  IF spread_bps <= 0 \/ mid <= 0 \/ mid >= One * Micro THEN <<>>
  ELSE LET p == quote_prices_validated(mid, spread_bps, positioning_factor, skew)
           buy_price == p[1]
           sell_price == p[2]
       IN  IF buy_price <= 0 \/ buy_price >= One \/ sell_price <= 0 \/ sell_price >= One
           THEN <<>>
           ELSE << buy_price, sell_price >>

(* ------------------------ the OrderManager run ------------------------ *)
Init ==
  /\ client \in { [kind |-> k, nonce |-> 0] : k \in {"sandbox", "real"} }
  /\ mgr = NewOrderManager
  /\ now = 0
  /\ cf = NoFrame
  /\ last = [op |-> "init", ret |-> None, raised |-> FALSE]
  /\ rm = NewRiskManager
  /\ ex = NewOrderExecutor
  /\ venue = [posts |-> 0]
  /\ utcnow = 0
  /\ bot = [running |-> FALSE, test_mode |-> TRUE]
  /\ resume_by = Absent
  /\ nc = NewNonceClient
  /\ calc = NoCall
  /\ tk = NoTasks
  /\ mn = NoMain
  /\ bc = NewBotController

\* a returned bool as the int it is in Python
Bool(b) == IF b THEN 1 ELSE 0

\* the record of a call that returned ret
Returned(op, ret) == [op |-> op, ret |-> ret, raised |-> FALSE]

\* d widens the bounds of the run by d
SubmitOrder(d) ==
  \E a \in SubmitArgs, resp \in SubmitResponses(client), gp \in GasPrices :
    /\ ~cf.active
    /\ client.nonce < MaxOrders + d
    /\ LET r == submit_order(mgr, client, a[1], a[2], a[3], a[4], now, resp, gp)
       IN  /\ mgr' = r.mgr
           /\ client' = r.client
           /\ last' = Returned("submit_order", r.ret)
    /\ UNCHANGED <<now, cf>>
    /\ UNCHANGED <<engvars, auxvars>>

CancelOrder ==
  \E oid \in OrderIds, venue_ok \in CancelResponses(client), gp \in GasPrices :
    /\ ~cf.active
    /\ LET r == cancel_order(mgr, client, oid, venue_ok, gp)
       IN  /\ mgr' = r.mgr
           /\ last' = Returned("cancel_order", Bool(r.ok))
    /\ UNCHANGED <<client, now, cf>>
    /\ UNCHANGED <<engvars, auxvars>>

CancelStale ==
  \E max_age \in MaxAges, gp \in GasPrices,
     venue_ok \in [Range(mgr.open) -> CancelResponses(client)] :
    /\ ~cf.active
    /\ LET r == cancel_stale(mgr, client, max_age, now, venue_ok, gp)
       IN  /\ mgr' = r.mgr
           /\ last' = Returned("cancel_stale", r.cancelled)
    /\ UNCHANGED <<client, now, cf>>
    /\ UNCHANGED <<engvars, auxvars>>

\* check_fills is entered: now is read and list(self.open.items()) is taken
CheckFillsBegin ==
  \E market \in Markets :
    /\ ~cf.active
    /\ cf' = [ active |-> TRUE, market |-> market, items |-> mgr.open, i |-> 1,
               t |-> now, fills |-> <<>> ]
    /\ UNCHANGED <<client, mgr, now, last>>
    /\ UNCHANGED <<engvars, auxvars>>

\* one iteration of the loop of check_fills; each iteration calls the venue
\* (get_orderbook, get_recent_trades).  A KeyError ends the call.
CheckFillsStep ==
  \E hit \in (IF client.kind = "sandbox" THEN BOOLEAN ELSE {FALSE}),
     trades \in (IF client.kind = "sandbox" THEN {<<>>} ELSE TradeLists) :
    /\ cf.active
    /\ cf.i <= Len(cf.items)
    /\ LET st == check_one([ mgr |-> mgr, fills |-> cf.fills, raised |-> FALSE,
                             processed |-> FALSE ],
                           client, cf.items[cf.i], cf.t, hit, trades)
       IN  /\ mgr' = st.mgr
           /\ IF st.raised
              THEN /\ cf' = NoFrame
                   /\ last' = [op |-> "check_fills", ret |-> None, raised |-> TRUE]
              ELSE /\ cf' = [ cf EXCEPT !.i = @ + 1, !.fills = st.fills ]
                   /\ UNCHANGED last
    /\ UNCHANGED <<client, now>>
    /\ UNCHANGED <<engvars, auxvars>>

\* the loop is over: check_fills returns fills
CheckFillsReturn ==
  /\ cf.active
  /\ cf.i > Len(cf.items)
  /\ cf' = NoFrame
  /\ last' = Returned("check_fills", Len(cf.fills))
  /\ UNCHANGED <<client, mgr, now>>
  /\ UNCHANGED <<engvars, auxvars>>

\* the WebSocket thread delivers a fill message for a live order: on_fill
WsFill(d) ==
  \E oid \in Range(mgr.open), size \in FillSizes :
    /\ client.kind = "real"
    /\ ~cf.active
    /\ Len(mgr.ws_fills) < MaxWsFills + d
    /\ mgr' = [ mgr EXCEPT !.ws_fills = Append(@, [order_id |-> oid, size |-> size]) ]
    /\ UNCHANGED <<client, now, cf, last>>
    /\ UNCHANGED <<engvars, auxvars>>

\* time passes
Tick(d) ==
  /\ ~cf.active
  /\ now < MaxTime + d
  /\ now' = now + 1
  /\ UNCHANGED <<client, mgr, cf, last>>
  /\ UNCHANGED <<engvars, auxvars>>

(* --------------------------- the engine run --------------------------- *)
Prices == {50}                        \* quoted prices, in cents
VenueFilled == {0, 5, 15}             \* filled_size of get_order_status
PostResponses == {"success", "failure"}
Equities == {11000}                   \* new_equity arguments of update_equity
Pnls == {-1000, 0}                    \* pnl / daily_pnl arguments
\* (side, size, current_exposure, inventory) arguments of check_pre_trade
PreTradeArgs ==
  { <<"BUY", default_size, 0, <<>>>>,
    <<"BUY", 200, 0, <<>>>>,
    <<"BUY", default_size, 995, <<>>>>,
    <<"BUY", 200, 995, <<>>>>,
    <<"BUY", 200, 0, <<10>>>>,
    <<"SELL", default_size, 0, <<10>>>> }

\* a RiskManager on its own, as RiskManager.__init__ leaves it
RiskInit ==
  /\ client = [kind |-> "sandbox", nonce |-> 0]
  /\ mgr = NewOrderManager
  /\ now = 0
  /\ cf = NoFrame
  /\ last = [op |-> "init", ret |-> None, raised |-> FALSE]
  /\ rm = NewRiskManager
  /\ ex = NewOrderExecutor
  /\ venue = [posts |-> 0]
  /\ utcnow = 0
  /\ bot = [running |-> TRUE, test_mode |-> TRUE]
  /\ resume_by = Absent
  /\ nc = NewNonceClient
  /\ calc = NoCall
  /\ tk = NoTasks
  /\ mn = NoMain
  /\ bc = NewBotController

\* MarketMakerBot.__init__ and start, in test mode or live
EngineInit ==
  /\ client = [kind |-> "sandbox", nonce |-> 0]
  /\ mgr = NewOrderManager
  /\ now = 0
  /\ cf = NoFrame
  /\ last = [op |-> "init", ret |-> None, raised |-> FALSE]
  /\ rm = NewRiskManager
  /\ ex = NewOrderExecutor
  /\ venue = [posts |-> 0]
  /\ utcnow = 0
  /\ bot \in { [running |-> TRUE, test_mode |-> tm] : tm \in BOOLEAN }
  /\ resume_by = Absent
  /\ nc = NewNonceClient
  /\ calc = NoCall
  /\ tk = NoTasks
  /\ mn = NoMain
  /\ bc = NewBotController

\* the risk check and the execution of one quote in _refresh_quotes
quote_step(st, quote, cancel_ok, resp) ==
  IF check_pre_trade(rm, quote.side, quote.size, 0, <<>>).allowed /\ ~bot.test_mode
  THEN execute_quotes(st.ex, st.venue, quote, cancel_ok, resp)
  ELSE st

\* MarketMakerBot._refresh_quotes for the active market: self._inventory is
\* empty, so total_exposure is 0 and both quotes have the default size
refresh_quotes(st, price, cancel_ok, resp) ==
  LET yes_quote == Quote(TokenIds.YES, "BUY", price, default_size)
      no_quote == Quote(TokenIds.NO, "SELL", 100 - price, default_size)
  IN  quote_step(quote_step(st, yes_quote, cancel_ok, resp["YES"]),
                 no_quote, cancel_ok, resp["NO"])

\* the venue's answers that a refresh of the quotes can meet: those to the
\* posts always, that to a cancel when the plan has an order to replace
RefreshInputs ==
  { [price |-> p, cancel_ok |-> c, resp |-> r] :
      p \in Prices,
      c \in (IF \E k \in {"YES", "NO"} : InSeq(ex.open_ids, TokenIds[k])
             THEN BOOLEAN ELSE {TRUE}),
      r \in [{"YES", "NO"} -> PostResponses] }

\* the rest of a pass of the loop of MarketMakerBot._main_loop, after the quote
\* refresh or without one (the interval has not elapsed, no market is active
\* or the market has no midpoint): update_order_status, check_circuit_breakers
main_loop_tail(s1, status) ==
  [ ex |-> update_order_status(s1.ex, status),
    venue |-> s1.venue,
    rm |-> check_circuit_breakers(rm, utcnow).rm ]

\* a pass of the loop in which the quote refresh is due
MainLoopRefresh ==
  \E in \in RefreshInputs :
    /\ bot.running
    /\ venue.posts < MaxPosts
    /\ LET s1 == refresh_quotes([ex |-> ex, venue |-> venue],
                                in.price, in.cancel_ok, in.resp)
       IN  \E status \in [Range(s1.ex.open_ids) -> VenueFilled] :
             /\ ex' = main_loop_tail(s1, status).ex
             /\ venue' = s1.venue
             /\ rm' = main_loop_tail(s1, status).rm
             /\ last' = Returned("_refresh_quotes", s1.venue.posts - venue.posts)
    /\ UNCHANGED <<utcnow, bot, resume_by>>
    /\ UNCHANGED <<omvars, auxvars>>

\* a pass of the loop without a quote refresh
MainLoopIdle ==
  \E status \in [Range(ex.open_ids) -> VenueFilled] :
    /\ bot.running
    /\ LET s == main_loop_tail([ex |-> ex, venue |-> venue], status)
       IN  /\ ex' = s.ex
           /\ rm' = s.rm
    /\ last' = Returned("_main_loop", None)
    /\ UNCHANGED <<venue, utcnow, bot, resume_by>>
    /\ UNCHANGED <<omvars, auxvars>>

\* RiskManager.check_circuit_breakers called on its own
CheckCircuitBreakers ==
  /\ bot.running
  /\ LET r == check_circuit_breakers(rm, utcnow)
     IN  /\ rm' = r.rm
         /\ last' = Returned("check_circuit_breakers", r.results)
  /\ UNCHANGED <<ex, venue, utcnow, bot, resume_by>>
  /\ UNCHANGED <<omvars, auxvars>>

\* RiskManager's other public operations, called between two awaits
CheckPreTrade ==
  \E a \in PreTradeArgs :
    /\ bot.running
    /\ last' = Returned("check_pre_trade",
                        Bool(check_pre_trade(rm, a[1], a[2], a[3], a[4]).allowed))
    /\ UNCHANGED engvars
    /\ UNCHANGED <<omvars, auxvars>>

CheckDailyLossLimit ==
  \E daily_pnl \in Pnls :
    /\ bot.running
    /\ LET r == check_daily_loss_limit(rm, daily_pnl, utcnow)
       IN  /\ rm' = r.rm
           /\ resume_by' = Max(resume_by, r.rm.pause_until)
           /\ last' = Returned("check_daily_loss_limit", Bool(r.allowed))
    /\ UNCHANGED <<ex, venue, utcnow, bot>>
    /\ UNCHANGED <<omvars, auxvars>>

CheckConsecutiveLosses ==
  \E is_loss \in BOOLEAN :
    /\ bot.running
    /\ is_loss => rm.consecutive_losses < MaxLosses
    /\ LET r == check_consecutive_losses(rm, is_loss, utcnow)
       IN  /\ rm' = r.rm
           /\ resume_by' = Max(resume_by, r.rm.pause_until)
           /\ last' = Returned("check_consecutive_losses", Bool(r.allowed))
    /\ UNCHANGED <<ex, venue, utcnow, bot>>
    /\ UNCHANGED <<omvars, auxvars>>

RecordApiFailure ==
  /\ bot.running
  /\ rm.api_failure_count < MaxFailures
  /\ rm' = record_api_failure(rm, utcnow)
  /\ resume_by' = Max(resume_by, rm'.pause_until)
  /\ last' = Returned("record_api_failure", None)
  /\ UNCHANGED <<ex, venue, utcnow, bot>>
  /\ UNCHANGED <<omvars, auxvars>>

RecordApiSuccess ==
  /\ bot.running
  /\ rm' = record_api_success(rm)
  /\ resume_by' = Max(resume_by, rm'.pause_until)
  /\ last' = Returned("record_api_success", None)
  /\ UNCHANGED <<ex, venue, utcnow, bot>>
  /\ UNCHANGED <<omvars, auxvars>>

UpdateEquity ==
  \E new_equity \in Equities, pnl \in Pnls :
    /\ bot.running
    /\ rm' = update_equity(rm, new_equity, pnl)
    /\ resume_by' = Max(resume_by, rm'.pause_until)
    /\ last' = Returned("update_equity", None)
    /\ UNCHANGED <<ex, venue, utcnow, bot>>
    /\ UNCHANGED <<omvars, auxvars>>

\* MarketMakerBot.shutdown
Shutdown ==
  \E venue_ok \in BOOLEAN :
    /\ bot.running
    /\ bot' = [ bot EXCEPT !.running = FALSE ]
    /\ ex' = IF bot.test_mode THEN ex ELSE cancel_all_orders(ex, venue_ok)
    /\ last' = Returned("shutdown", None)
    /\ UNCHANGED <<rm, venue, utcnow, resume_by>>
    /\ UNCHANGED <<omvars, auxvars>>

\* datetime.utcnow() moves on
Advance ==
  /\ bot.running
  /\ utcnow < MaxAdvances * ClockStep
  /\ utcnow' = utcnow + ClockStep
  /\ UNCHANGED <<rm, ex, venue, bot, resume_by, last>>
  /\ UNCHANGED <<omvars, auxvars>>

(* ------------------ the tasks of MarketMakerBot ----------------------- *)
\* The task of start() runs _main_loop and then shutdown(); a signal starts a
\* second task running shutdown().  A task runs from one await to the next
\* without interruption, and the other task may run while it is suspended.
MaxRefreshes == 1        \* _refresh_quotes calls in one run

Shutdowns == {"signal", "main"}

\* _refresh_quotes' loop over [yes_quote, no_quote] from the quotes qs on, up
\* to the await of create_and_post_order for the first quote that passes
\* the risk check and is planned to be placed: the executor after the
\* cancels on the way, and the quotes left, the one being posted first
RECURSIVE next_quote(_, _, _)
next_quote(e, qs, cancel_ok) ==
  IF qs = <<>>
  THEN [ ex |-> e, quotes |-> <<>> ]
  ELSE IF check_pre_trade(rm, Head(qs).side, Head(qs).size, 0, <<>>).allowed
          /\ ~bot.test_mode
       THEN LET plan == plan_cancel_replace(e, Head(qs))
                e1 == IF plan.to_cancel # <<>>
                      THEN cancel_one(e, plan.to_cancel[1], cancel_ok) ELSE e
            IN  IF plan.to_place # <<>>
                THEN [ ex |-> e1, quotes |-> qs ]
                ELSE next_quote(e1, Tail(qs), cancel_ok)
       ELSE next_quote(e, Tail(qs), cancel_ok)

\* the pass of _main_loop from the end of _refresh_quotes to its next await:
\* get_order_status for the first of list(_open_orders.items()), or, with
\* no open order, asyncio.sleep after check_circuit_breakers
begin_status(t, e) ==
  IF e.open_ids = <<>>
  THEN [ t EXCEPT !.loop = "while", !.quotes = <<>>, !.items = <<>> ]
  ELSE [ t EXCEPT !.loop = "status", !.quotes = <<>>, !.items = e.open_ids ]

\* the task of _main_loop goes on from r, the outcome of next_quote
loop_continues(r) ==
  /\ ex' = r.ex
  /\ IF r.quotes # <<>>
     THEN /\ tk' = [ tk EXCEPT !.loop = "posting", !.quotes = r.quotes ]
          /\ venue' = [ venue EXCEPT !.posts = @ + 1 ]
          /\ rm' = rm
     ELSE /\ tk' = begin_status(tk, r.ex)
          /\ venue' = venue
          /\ rm' = IF r.ex.open_ids = <<>>
                   THEN check_circuit_breakers(rm, utcnow).rm ELSE rm

\* shutdown() up to its first await, in the task of call c
begin_shutdown(t, c) ==
  [ t EXCEPT !.sd[c] = IF bot.test_mode THEN "closing" ELSE "cancelling" ]

\* _main_loop resumes from asyncio.sleep (or start() from connect), finds
\* _running set and a quote refresh due: up to the await of get_midpoint
LoopRefreshDue ==
  /\ tk.loop = "while"
  /\ bot.running
  /\ tk.refreshes < MaxRefreshes
  /\ tk' = [ tk EXCEPT !.loop = "book", !.refreshes = @ + 1 ]
  /\ UNCHANGED <<engvars, last, nc, calc, mn, bc>>
  /\ UNCHANGED omvars

\* the same with no refresh due: up to the first await of update_order_status
LoopNoRefresh ==
  /\ tk.loop = "while"
  /\ bot.running
  /\ tk' = begin_status(tk, ex)
  /\ rm' = IF ex.open_ids = <<>>
           THEN check_circuit_breakers(rm, utcnow).rm ELSE rm
  /\ UNCHANGED <<ex, venue, utcnow, bot, resume_by, last, nc, calc, mn, bc>>
  /\ UNCHANGED omvars

\* _main_loop resumes, finds _running cleared and returns; start()'s finally
\* clause calls shutdown()
LoopExit ==
  /\ tk.loop = "while"
  /\ ~bot.running
  /\ tk' = begin_shutdown([ tk EXCEPT !.loop = "finally" ], "main")
  /\ UNCHANGED <<engvars, last, nc, calc, mn, bc>>
  /\ UNCHANGED omvars

\* get_midpoint and get_orderbook return in _refresh_quotes: no mid price
\* (None) ends the refresh, a price leads on to the first post
LoopBook ==
  \E mid_price \in Prices \cup {None}, cancel_ok \in BOOLEAN :
    /\ tk.loop = "book"
    /\ loop_continues(
         IF mid_price = None
         THEN [ ex |-> ex, quotes |-> <<>> ]
         ELSE next_quote(ex, << Quote(TokenIds.YES, "BUY", mid_price, default_size),
                                Quote(TokenIds.NO, "SELL", 100 - mid_price,
                                      default_size) >>,
                         cancel_ok))
    /\ UNCHANGED <<utcnow, bot, resume_by, last, nc, calc, mn, bc>>
    /\ UNCHANGED omvars

\* create_and_post_order returns in _place_orders: the order is entered in
\* _open_orders, and the refresh goes on with the next quote
LoopPost ==
  \E resp \in PostResponses, cancel_ok \in BOOLEAN :
    /\ tk.loop = "posting"
    /\ loop_continues(next_quote(place_one(ex, venue, Head(tk.quotes), resp).ex,
                                 Tail(tk.quotes), cancel_ok))
    /\ UNCHANGED <<utcnow, bot, resume_by, last, nc, calc, mn, bc>>
    /\ UNCHANGED omvars

\* get_order_status returns in update_order_status for the first item left
LoopStatus ==
  \E filled \in VenueFilled :
    /\ tk.loop = "status"
    /\ ex' = update_order_status_loop(ex, << Head(tk.items) >>, 1,
                                      [ o \in {Head(tk.items)} |-> filled ])
    /\ tk' = [ tk EXCEPT !.items = Tail(@),
                         !.loop = IF Tail(tk.items) = <<>> THEN "while" ELSE @ ]
    /\ rm' = IF Tail(tk.items) = <<>>
             THEN check_circuit_breakers(rm, utcnow).rm ELSE rm
    /\ UNCHANGED <<venue, utcnow, bot, resume_by, last, nc, calc, mn, bc>>
    /\ UNCHANGED omvars

\* a signal arrives: the handler's task runs shutdown() up to its first await
ShutdownBegin ==
  /\ tk.sd.signal = "idle"
  /\ tk.loop # "returned"
  /\ bot' = [ bot EXCEPT !.running = FALSE ]
  /\ tk' = begin_shutdown(tk, "signal")
  /\ UNCHANGED <<rm, ex, venue, utcnow, resume_by, last, nc, calc, mn, bc>>
  /\ UNCHANGED omvars

\* cancel_all_orders resumes with the venue's answer in shutdown call c
ShutdownCancelAll(c) ==
  \E venue_ok \in BOOLEAN :
    /\ tk.sd[c] = "cancelling"
    /\ ex' = cancel_all_orders(ex, venue_ok)
    /\ tk' = [ tk EXCEPT !.sd[c] = "closing", !.ok[c] = venue_ok ]
    /\ UNCHANGED <<rm, venue, utcnow, bot, resume_by, last, nc, calc, mn, bc>>
    /\ UNCHANGED omvars

\* disconnect() and close() return in shutdown call c, which completes
ShutdownComplete(c) ==
  /\ tk.sd[c] = "closing"
  /\ tk' = [ tk EXCEPT !.sd[c] = "done",
                       !.loop = IF c = "main" THEN "returned" ELSE @ ]
  /\ last' = Returned("shutdown", None)
  /\ UNCHANGED <<engvars, nc, calc, mn, bc>>
  /\ UNCHANGED omvars

TaskNext ==
  \/ LoopRefreshDue
  \/ LoopNoRefresh
  \/ LoopExit
  \/ LoopBook
  \/ LoopPost
  \/ LoopStatus
  \/ ShutdownBegin
  \/ \E c \in Shutdowns : ShutdownCancelAll(c)
  \/ \E c \in Shutdowns : ShutdownComplete(c)

(* ------------------------ the loop of run_bot.main -------------------- *)
\* main() with its defaults: the sandbox client, capital 60, AGGRO["3"].
\* The client's markets are Markets, in the order of MarketSeq; its books
\* are the book get_orderbook falls back to (no levels, midpoint 0.50).
MaxMainTime == 31        \* last reading of the clock in a run of main
PassSecs == 31           \* seconds that pass at once: sleeps and venue calls

lifetime == 30
max_per_mkt == (capital * 30) \div 100
max_net == (capital * 50) \div 100

MarketSeq == << "m1", "m2" >>

\* inv[...] * book.midpoint in dollars, for a quantity in thousandths
inv_value(qty) == (qty * book_midpoint(<<>>, <<>>)) \div (1000 * One)

\* OrderManager.check_fills as one call; hit[oid] is the draw for order oid
RECURSIVE check_fills_loop(_, _, _, _, _, _)
check_fills_loop(st, c, items, i, t, hit) ==
  IF i > Len(items) \/ st.raised THEN st
  ELSE check_fills_loop(check_one(st, c, items[i], t, hit[items[i]], <<>>),
                        c, items, i + 1, t, hit)

\* OrderManager.net_exposure over the markets
RECURSIVE net_exposure(_, _)
net_exposure(m, i) ==
  IF i > Len(MarketSeq) THEN 0
  ELSE inv_value(m.inventory[MarketSeq[i]].YES)
         - inv_value(m.inventory[MarketSeq[i]].NO) + net_exposure(m, i + 1)

\* one submit_order call of main and the assignment to the open_orders slot
main_submit(s, mkt, order, t) ==
  LET r == submit_order(s.mgr, s.client, mkt, order.side, order.size, lifetime,
                        t, "success", DEFAULT_GAS_PRICE_GWEI)
  IN  [ mgr |-> r.mgr, client |-> r.client,
        open_orders |-> IF r.ret # None
                        THEN [ s.open_orders EXCEPT ![mkt][order.side] = r.ret ]
                        ELSE s.open_orders ]

\* mgr.check_fills(mkt) in main's loop: the manager it leaves
main_check_fills(m, c, t, hit) ==
  check_fills_loop([ mgr |-> m, fills |-> <<>>, raised |-> FALSE,
                     processed |-> FALSE ], c, m.open, 1, t, hit).mgr

\* the body of main's loop for the market mkt at time t, after check_fills
\* has left the manager m1
main_market(m1, c, oo, mkt, t, base_spread) ==
  LET yes_v == inv_value(m1.inventory[mkt].YES)
      no_v == inv_value(m1.inventory[mkt].NO)
      s0 == [ mgr |-> m1, client |-> c, open_orders |-> oo ]
      orders == tick_orders(<<>>, <<>>, base_spread, yes_v, no_v,
                            oo[mkt].BUY # None, oo[mkt].SELL # None)
      s1 == IF Len(orders) >= 1 THEN main_submit(s0, mkt, orders[1], t) ELSE s0
      s2 == IF Len(orders) >= 2 THEN main_submit(s1, mkt, orders[2], t) ELSE s1
  IN  IF Abs(net_exposure(m1, 1)) > max_net THEN s0
      ELSE IF yes_v > max_per_mkt \/ no_v > max_per_mkt THEN s0
      ELSE s2

MainInit ==
  /\ client = [kind |-> "sandbox", nonce |-> 0]
  /\ mgr = NewOrderManager
  /\ now = 0
  /\ cf = NoFrame
  /\ last = [op |-> "init", ret |-> None, raised |-> FALSE]
  /\ rm = NewRiskManager
  /\ ex = NewOrderExecutor
  /\ venue = [posts |-> 0]
  /\ utcnow = 0
  /\ bot = [running |-> FALSE, test_mode |-> TRUE]
  /\ resume_by = Absent
  /\ nc = NewNonceClient
  /\ calc = NoCall
  /\ tk = NoTasks
  /\ mn = NoMain
  /\ bc = NewBotController

\* the head of a cycle: mgr.cancel_stale(lifetime)
MainCancelStale ==
  /\ mn.pos = 0
  /\ LET r == cancel_stale(mgr, client, lifetime, now,
                           [o \in Range(mgr.open) |-> TRUE], DEFAULT_GAS_PRICE_GWEI)
     IN  /\ mgr' = r.mgr
         /\ last' = Returned("cancel_stale", r.cancelled)
  /\ mn' = [ mn EXCEPT !.pos = 1 ]
  /\ UNCHANGED <<client, now, cf, engvars, nc, calc, tk, bc>>

\* the body of the loop for the next market; after the last one the cycle ends
MainMarket ==
  \E hit \in [Range(mgr.open) -> BOOLEAN],
     base_spread \in {preset_min_bps, preset_max_bps} :
    /\ mn.pos >= 1
    /\ \E m1 \in { main_check_fills(mgr, client, now, hit) } :
       \E s \in { main_market(m1, client, mn.open_orders, MarketSeq[mn.pos], now,
                               base_spread) } :
         /\ mgr' = s.mgr
         /\ client' = s.client
         /\ mn' = [ open_orders |-> s.open_orders,
                    pos |-> IF mn.pos = Len(MarketSeq) THEN 0 ELSE mn.pos + 1 ]
         /\ last' = Returned("main", s.mgr.placed - mgr.placed)
    /\ UNCHANGED <<now, cf, engvars, nc, calc, tk, bc>>

\* time passes: the cycle's time.sleep(3) and the calls of the venue
MainTick ==
  /\ now + PassSecs <= MaxMainTime
  /\ now' = now + PassSecs
  /\ UNCHANGED <<client, mgr, cf, last, engvars, auxvars>>

MainNext ==
  \/ MainCancelStale
  \/ MainMarket
  \/ MainTick

(* ------------------- BotController.start and stop -------------------- *)
\* the calls of start and stop arrive on the threads of the web server's
\* pool (the handlers of routers/bot.py are plain functions); a step is one
\* statement of start, of stop or of _run_bot_loop
CtlInit ==
  /\ client = [kind |-> "sandbox", nonce |-> 0]
  /\ mgr = NewOrderManager
  /\ now = 0
  /\ cf = NoFrame
  /\ last = [op |-> "init", ret |-> None, raised |-> FALSE]
  /\ rm = NewRiskManager
  /\ ex = NewOrderExecutor
  /\ venue = [posts |-> 0]
  /\ utcnow = 0
  /\ bot = [running |-> FALSE, test_mode |-> TRUE]
  /\ resume_by = Absent
  /\ nc = NewNonceClient
  /\ calc = NoCall
  /\ tk = NoTasks
  /\ mn = NoMain
  /\ bc = NewBotController

CtlFrame == UNCHANGED <<client, mgr, now, cf, last, engvars, nc, calc, tk, mn>>

\* Thread.is_alive(): true from start() until the target has ended
is_alive(b, t) == b.thread[t] \in {"setup", "test", "cycle"}

\* BotController.is_running
is_running(b) == b.bot_thread # None /\ is_alive(b, b.bot_thread)

\* callers inside start that have not yet made their Thread
Starting(b) == {c \in Callers : b.pc[c] \in {"start", "start_clear", "start_create"}}

\* a caller enters start
StartCall(c) ==
  /\ bc.pc[c] = "idle"
  /\ bc.spawned + Cardinality(Starting(bc)) < MaxThreads
  /\ bc' = [bc EXCEPT !.pc[c] = "start", !.ret[c] = "none"]
  /\ CtlFrame

\* "if self.is_running(): return ..." and the test of aggression
StartCheck(c) ==
  /\ bc.pc[c] = "start"
  /\ \E valid \in BOOLEAN :
       bc' = IF is_running(bc) \/ ~valid
             THEN [bc EXCEPT !.pc[c] = "idle", !.ret[c] = "error"]
             ELSE [bc EXCEPT !.pc[c] = "start_clear"]
  /\ CtlFrame

\* self._stop_event.clear()
StartClear(c) ==
  /\ bc.pc[c] = "start_clear"
  /\ bc' = [bc EXCEPT !.stop_event = FALSE, !.pc[c] = "start_create"]
  /\ CtlFrame

\* self._bot_thread = threading.Thread(...)
StartCreate(c) ==
  /\ bc.pc[c] = "start_create"
  /\ bc' = [bc EXCEPT !.spawned = @ + 1, !.bot_thread = bc.spawned + 1,
                       !.thread[bc.spawned + 1] = "new",
                       !.pc[c] = "start_thread"]
  /\ CtlFrame

\* self._bot_thread.start() and the return; on None (AttributeError) and on a
\* Thread already started (RuntimeError) the except clause returns an error
StartThread(c) ==
  /\ bc.pc[c] = "start_thread"
  /\ bc' = IF bc.bot_thread = None
           THEN [bc EXCEPT !.pc[c] = "idle", !.ret[c] = "error"]
           ELSE IF bc.thread[bc.bot_thread] # "new"
           THEN [bc EXCEPT !.pc[c] = "idle", !.ret[c] = "error"]
           ELSE [bc EXCEPT !.thread[bc.bot_thread] = "setup",
                           !.pc[c] = "idle", !.ret[c] = "started"]
  /\ CtlFrame

\* a caller enters stop
StopCall(c) ==
  /\ bc.pc[c] = "idle"
  /\ bc' = [bc EXCEPT !.pc[c] = "stop", !.ret[c] = "none", !.joined[c] = None]
  /\ CtlFrame

\* "if not self.is_running(): return ..."
StopCheck(c) ==
  /\ bc.pc[c] = "stop"
  /\ bc' = IF ~is_running(bc)
           THEN [bc EXCEPT !.pc[c] = "idle", !.ret[c] = "error"]
           ELSE [bc EXCEPT !.pc[c] = "stop_set"]
  /\ CtlFrame

\* self._stop_event.set()
StopSet(c) ==
  /\ bc.pc[c] = "stop_set"
  /\ bc' = [bc EXCEPT !.stop_event = TRUE, !.pc[c] = "stop_join"]
  /\ CtlFrame

\* self._bot_thread.join(timeout=5): raises on None and on a Thread not yet
\* started; returns when the Thread has ended, and after 5 seconds while it
\* is still before its loop (get_markets waits up to 10 seconds on the venue)
StopJoin(c) ==
  /\ bc.pc[c] = "stop_join"
  /\ IF bc.bot_thread = None
     THEN bc' = [bc EXCEPT !.pc[c] = "idle", !.ret[c] = "raised"]
     ELSE IF bc.thread[bc.bot_thread] = "new"
     THEN bc' = [bc EXCEPT !.pc[c] = "idle", !.ret[c] = "raised"]
     ELSE /\ bc.thread[bc.bot_thread] \in {"dead", "setup"}
          /\ bc' = [bc EXCEPT !.pc[c] = "stop_clear",
                              !.joined[c] = bc.bot_thread]
  /\ CtlFrame

\* self._bot_thread = None and the return
StopClear(c) ==
  /\ bc.pc[c] = "stop_clear"
  /\ bc' = [bc EXCEPT !.bot_thread = None, !.pc[c] = "idle",
                       !.ret[c] = "stopped"]
  /\ CtlFrame

\* _run_bot_loop up to its while loop: the client is made (RealTradingClient
\* raises without its environment) and the markets fetched
ThreadSetup(t) ==
  /\ bc.thread[t] = "setup"
  /\ \E ok \in BOOLEAN :
       bc' = [bc EXCEPT !.thread[t] = IF ok THEN "test" ELSE "dead"]
  /\ CtlFrame

\* "while not self._stop_event.is_set()"
ThreadTest(t) ==
  /\ bc.thread[t] = "test"
  /\ bc' = [bc EXCEPT !.thread[t] = IF bc.stop_event THEN "dead" ELSE "cycle"]
  /\ CtlFrame

\* the loop's body: cancel_stale returns an int and len(stale) raises, the
\* except clause raises again and the thread ends
ThreadCycle(t) ==
  /\ bc.thread[t] = "cycle"
  /\ bc' = [bc EXCEPT !.thread[t] = "dead"]
  /\ CtlFrame

CtlNext ==
  \/ \E c \in Callers : StartCall(c)
  \/ \E c \in Callers : StartCheck(c)
  \/ \E c \in Callers : StartClear(c)
  \/ \E c \in Callers : StartCreate(c)
  \/ \E c \in Callers : StartThread(c)
  \/ \E c \in Callers : StopCall(c)
  \/ \E c \in Callers : StopCheck(c)
  \/ \E c \in Callers : StopSet(c)
  \/ \E c \in Callers : StopJoin(c)
  \/ \E c \in Callers : StopClear(c)
  \/ \E t \in ThreadIds : ThreadSetup(t)
  \/ \E t \in ThreadIds : ThreadTest(t)
  \/ \E t \in ThreadIds : ThreadCycle(t)

(* ---------------------- the OrderExecutor run ------------------------ *)
\* an OrderExecutor on its own, as OrderExecutor.__init__ leaves it
QuoteInit ==
  /\ client = [kind |-> "sandbox", nonce |-> 0]
  /\ mgr = NewOrderManager
  /\ now = 0
  /\ cf = NoFrame
  /\ last = [op |-> "init", ret |-> None, raised |-> FALSE]
  /\ rm = NewRiskManager
  /\ ex = NewOrderExecutor
  /\ venue = [posts |-> 0]
  /\ utcnow = 0
  /\ bot = [running |-> TRUE, test_mode |-> FALSE]
  /\ resume_by = Absent
  /\ nc = NewNonceClient
  /\ calc = NoCall
  /\ tk = NoTasks
  /\ mn = NoMain
  /\ bc = NewBotController

\* the quotes a refresh hands to execute_quotes, one at a time
TickQuotes ==
  { Quote(TokenIds.YES, "BUY", p, default_size) : p \in Prices }
    \cup { Quote(TokenIds.NO, "SELL", 100 - p, default_size) : p \in Prices }

\* execute_quotes([quote], self.order_executor.get_open_orders())
ExecuteQuotes ==
  \E quote \in TickQuotes, cancel_ok \in BOOLEAN, resp \in PostResponses :
    /\ venue.posts < MaxQuotes
    /\ LET r == execute_quotes(ex, venue, quote, cancel_ok, resp)
       IN  /\ ex' = r.ex
           /\ venue' = r.venue
           /\ last' = Returned("execute_quotes", Len(r.ex.open_ids))
    /\ UNCHANGED <<rm, utcnow, bot, resume_by>>
    /\ UNCHANGED <<omvars, auxvars>>

\* OrderExecutor.update_order_status called between two refreshes
UpdateOrderStatus ==
  \E status \in [Range(ex.open_ids) -> VenueFilled] :
    /\ ex.open_ids # <<>>
    /\ ex' = update_order_status(ex, status)
    /\ last' = Returned("update_order_status", None)
    /\ UNCHANGED <<rm, venue, utcnow, bot, resume_by>>
    /\ UNCHANGED <<omvars, auxvars>>

\* OrderExecutor.cancel_all_orders
CancelAllOrders ==
  \E venue_ok \in BOOLEAN :
    /\ ex.open_ids # <<>>
    /\ ex' = cancel_all_orders(ex, venue_ok)
    /\ last' = Returned("cancel_all_orders", None)
    /\ UNCHANGED <<rm, venue, utcnow, bot, resume_by>>
    /\ UNCHANGED <<omvars, auxvars>>

QuoteNext ==
  \/ ExecuteQuotes
  \/ UpdateOrderStatus
  \/ CancelAllOrders

(* ----------------------- the get_nonce run -------------------------- *)
\* a TradingClient on its own, as __init__ leaves it
NonceInit ==
  /\ client = [kind |-> "sandbox", nonce |-> 0]
  /\ mgr = NewOrderManager
  /\ now = 0
  /\ cf = NoFrame
  /\ last = [op |-> "init", ret |-> None, raised |-> FALSE]
  /\ rm = NewRiskManager
  /\ ex = NewOrderExecutor
  /\ venue = [posts |-> 0]
  /\ utcnow = 0
  /\ bot = [running |-> FALSE, test_mode |-> TRUE]
  /\ resume_by = Absent
  /\ nc = NewNonceClient
  /\ calc = NoCall
  /\ tk = NoTasks
  /\ mn = NoMain
  /\ bc = NewBotController

NonceFrame == UNCHANGED <<omvars, engvars, last, calc, tk, mn, bc>>

NonceAcquire(t) ==
  /\ nc.pc[t] = "idle"
  /\ nc.calls < MaxCalls
  /\ lock_free(nc.lock)
  /\ nc' = nonce_acquire(nc, t)
  /\ NonceFrame

NonceRead(t) == nc.pc[t] = "read" /\ nc' = nonce_read(nc, t) /\ NonceFrame

NonceLoad(t) == nc.pc[t] = "load" /\ nc' = nonce_load(nc, t) /\ NonceFrame

NonceStore(t) == nc.pc[t] = "store" /\ nc' = nonce_store(nc, t) /\ NonceFrame

NonceRelease(t) == nc.pc[t] = "release" /\ nc' = nonce_release(nc, t) /\ NonceFrame

NonceReturn(t) == nc.pc[t] = "return" /\ nc' = nonce_return(nc, t) /\ NonceFrame

NonceNext ==
  \E t \in Threads :
    \/ NonceAcquire(t)
    \/ NonceRead(t)
    \/ NonceLoad(t)
    \/ NonceStore(t)
    \/ NonceRelease(t)
    \/ NonceReturn(t)

(* ------------------ the pricing and quoting calls -------------------- *)
\* a call that has not been made yet
Call(fn, args) == [fn |-> fn, args |-> args, done |-> FALSE, out |-> <<>>]

\* arguments of QuoteEngine.calculate_quotes
QuoteCalls ==
  { Call("calculate_quotes",
         [mid |-> mid, volatility |-> vol, spread |-> sp, inventory |-> inv, total_exposure_usd |-> te]) :
      mid \in {1, 50, 5000, 9500, 9999}, vol \in {0, 200}, sp \in {0, 30, 200},
      inv \in { <<>>, <<1000>>, <<-1000>>, <<300, -100>> }, te \in {0, 400, 600, 1000} }

\* what one pass of main's loop reads: the book, randint's draw, the
\* value of the inventory and the open_orders slots of the market
TickCalls ==
  { Call("main",
         [bids |-> b, asks |-> a, base_spread |-> bs, yes_v |-> yv, no_v |-> nv,
          buy_open |-> bo, sell_open |-> so]) :
      b \in { <<>>, <<0>>, <<1>>, <<4800>>, <<9999>>, <<10100>> },
      a \in { <<>>, <<5200>>, <<9999>> },
      bs \in {preset_min_bps, 5, preset_max_bps},
      yv \in {0, 6, 10}, nv \in {0, 6},
      bo \in BOOLEAN, so \in BOOLEAN }

\* PricingConfig() and the spreads and thresholds of the three levels of
\* get_aggression_config
Configs ==
  { PricingConfig,
    [PricingConfig EXCEPT !.min_spread_bps = 30, !.max_spread_bps = 80,
                          !.buy_stop_threshold = 100, !.sell_stop_threshold = -100],
    [PricingConfig EXCEPT !.min_spread_bps = 20, !.max_spread_bps = 60],
    [PricingConfig EXCEPT !.min_spread_bps = 15, !.max_spread_bps = 50,
                          !.buy_stop_threshold = 200, !.sell_stop_threshold = -200] }

SpreadCalls ==
  { Call("calculate_optimal_spread",
         [market_spread_bps |-> ms, volatility_bps |-> vol, fill_rate |-> fr, config |-> cfg]) :
      ms \in {0, 50, 99, 100, 101, 300, 500},
      vol \in {0, 5, 74, 75, 80, 300, 400, 1000},
      fr \in {0, 50, 99, 100, 200, 201, 300, 301, 400, 401, 500, 1000},
      cfg \in Configs }

Skews == {-2000, -1000, -500, -150, -1, 0, 1, 150, 300, 500, 1000, 2000}

PositioningCalls ==
  { Call("calculate_positioning_factor", [skew |-> sk, spread_bps |-> sp, config |-> cfg]) :
      sk \in Skews, sp \in {-10, 0, 15, 20, 30, 50, 80, 95, 96, 200}, cfg \in Configs }

SideCalls ==
  { Call("should_quote_side", [side |-> sd, skew |-> sk, config |-> cfg]) :
      sd \in {"BUY", "SELL", "buy", "sell", "HOLD"},
      sk \in {-1000, -201, -200, -151, -150, -149, -101, -100, -99, 0,
              99, 100, 101, 149, 150, 151, 200, 201, 1000},
      cfg \in Configs }

PriceCalls ==
  { Call("calculate_quote_prices",
         [mid |-> mid, spread_bps |-> sp, positioning_factor |-> pf, skew |-> sk]) :
      mid \in {-100, 0, 1, 50, 100, 150, 5000, 500000, 994000, 999000, 999900, 999950, 999999,
               1000000, 1000100},
      sp \in {-5, 0, 1, 15, 40, 80},
      pf \in {20, 50, 80},
      sk \in {-1000, -300, 0, 1, 10, 300, 1000} }

\* arguments of should_rebalance and calculate_rebalance_quotes: inventories
\* at, around and beyond max_inventory_skew on either side
RebalanceCalls ==
  { Call(fn, [mid |-> mid, inventory |-> inv, total_exposure_usd |-> te]) :
      fn \in {"should_rebalance", "calculate_rebalance_quotes"},
      mid \in {2000, 5000},
      inv \in { <<>>, <<300>>, <<301>>, <<-300>>, <<-301>>, <<1000>>, <<-2000>>,
                <<400, -400>>, <<300, -100>> },
      te \in {0, 400} }

PricingCalls ==
  QuoteCalls \cup TickCalls \cup SpreadCalls \cup PositioningCalls \cup SideCalls
    \cup PriceCalls \cup RebalanceCalls

PricingInit ==
  /\ client = [kind |-> "sandbox", nonce |-> 0]
  /\ mgr = NewOrderManager
  /\ now = 0
  /\ cf = NoFrame
  /\ last = [op |-> "init", ret |-> None, raised |-> FALSE]
  /\ rm = NewRiskManager
  /\ ex = NewOrderExecutor
  /\ venue = [posts |-> 0]
  /\ utcnow = 0
  /\ bot = [running |-> FALSE, test_mode |-> TRUE]
  /\ resume_by = Absent
  /\ nc = NewNonceClient
  /\ calc \in PricingCalls
  /\ tk = NoTasks
  /\ mn = NoMain
  /\ bc = NewBotController

PricingFrame == UNCHANGED <<omvars, engvars, last, nc, tk, mn, bc>>

\* the call in calc returns out
Returns(out) == calc' = [calc EXCEPT !.done = TRUE, !.out = out]

CalculateQuotes ==
  /\ calc.fn = "calculate_quotes" /\ ~calc.done
  /\ LET a == calc.args
     IN  Returns(calculate_quotes(a.mid, a.volatility, a.spread, a.inventory, a.total_exposure_usd))
  /\ PricingFrame

TickOrders ==
  /\ calc.fn = "main" /\ ~calc.done
  /\ LET a == calc.args
     IN  Returns(tick_orders(a.bids, a.asks, a.base_spread, a.yes_v, a.no_v, a.buy_open, a.sell_open))
  /\ PricingFrame

CalculateOptimalSpread ==
  /\ calc.fn = "calculate_optimal_spread" /\ ~calc.done
  /\ LET a == calc.args
     IN  Returns(<< calculate_optimal_spread(a.market_spread_bps, a.volatility_bps,
                                             a.fill_rate, a.config) >>)
  /\ PricingFrame

CalculatePositioningFactor ==
  /\ calc.fn = "calculate_positioning_factor" /\ ~calc.done
  /\ LET a == calc.args
     IN  Returns(<< calculate_positioning_factor(a.skew, a.spread_bps, a.config) >>)
  /\ PricingFrame

ShouldQuoteSide ==
  /\ calc.fn = "should_quote_side" /\ ~calc.done
  /\ LET a == calc.args
     IN  Returns(<< Bool(should_quote_side(a.side, a.skew, a.config)) >>)
  /\ PricingFrame

CalculateQuotePrices ==
  /\ calc.fn = "calculate_quote_prices" /\ ~calc.done
  /\ LET a == calc.args
     IN  Returns(calculate_quote_prices(a.mid, a.spread_bps, a.positioning_factor, a.skew))
  /\ PricingFrame

ShouldRebalance ==
  /\ calc.fn = "should_rebalance" /\ ~calc.done
  /\ LET a == calc.args
     IN  Returns(<< Bool(should_rebalance(a.inventory, a.total_exposure_usd)) >>)
  /\ PricingFrame

CalculateRebalanceQuotes ==
  /\ calc.fn = "calculate_rebalance_quotes" /\ ~calc.done
  /\ LET a == calc.args
     IN  Returns(calculate_rebalance_quotes(a.mid, a.inventory, a.total_exposure_usd))
  /\ PricingFrame

PricingNext ==
  \/ ShouldRebalance
  \/ CalculateRebalanceQuotes
  \/ CalculateQuotes
  \/ TickOrders
  \/ CalculateOptimalSpread
  \/ CalculatePositioningFactor
  \/ ShouldQuoteSide
  \/ CalculateQuotePrices

RiskNext ==
  \/ CheckPreTrade
  \/ CheckDailyLossLimit
  \/ CheckConsecutiveLosses
  \/ RecordApiFailure
  \/ RecordApiSuccess
  \/ UpdateEquity
  \/ CheckCircuitBreakers
  \/ Advance

\* the bot, with the breakers tripped and the books kept from outside; its
\* calls of check_pre_trade and check_circuit_breakers are those of the loop
EngineNext ==
  \/ MainLoopRefresh
  \/ MainLoopIdle
  \/ Shutdown
  \/ CheckDailyLossLimit
  \/ CheckConsecutiveLosses
  \/ RecordApiFailure
  \/ RecordApiSuccess
  \/ UpdateEquity
  \/ Advance

Next ==
  \/ SubmitOrder(0)
  \/ CancelOrder
  \/ CancelStale
  \/ CheckFillsBegin
  \/ CheckFillsStep
  \/ CheckFillsReturn
  \/ WsFill(0)
  \/ Tick(0)

\* the same program with room for one more order, clock tick and queued fill
WideNext ==
  \/ SubmitOrder(1)
  \/ CancelOrder
  \/ CancelStale
  \/ CheckFillsBegin
  \/ CheckFillsStep
  \/ CheckFillsReturn
  \/ WsFill(1)
  \/ Tick(1)

vars == <<client, mgr, now, cf, last, rm, ex, venue, utcnow, bot, resume_by, nc, calc, tk, mn, bc>>

Spec == Init /\ [][Next]_vars

WideSpec == Init /\ [][WideNext]_vars

RiskSpec == RiskInit /\ [][RiskNext]_vars

EngineSpec == EngineInit /\ [][EngineNext]_vars

QuoteSpec == QuoteInit /\ [][QuoteNext]_vars

NonceSpec == NonceInit /\ [][NonceNext]_vars

PricingSpec == PricingInit /\ [][PricingNext]_vars

TaskSpec == EngineInit /\ [][TaskNext]_vars

MainSpec == MainInit /\ [][MainNext]_vars

\* main's loop is `while True`: a cycle that can go on does go on
MainLiveSpec == MainSpec /\ WF_vars(MainCancelStale) /\ WF_vars(MainMarket)

CtlSpec == CtlInit /\ [][CtlNext]_vars

(* ============================ the claims ============================== *)
Terminal == {"FILLED", "CANCELLED", "EXPIRED"}

OrderSet == DOMAIN mgr.orders

\* C1: an order's status only moves OPEN -> {FILLED, CANCELLED, EXPIRED}
\* (orders enter the books OPEN, the PENDING order of a refused submission
\* is dropped), and a FILLED, CANCELLED or EXPIRED status never changes.
C1_StatusNeverLeavesTerminal ==
  [][ \A o \in OrderSet :
        /\ mgr.orders[o].status \in Terminal
             => mgr'.orders[o].status = mgr.orders[o].status
        /\ mgr.orders[o].status = "OPEN"
             => mgr'.orders[o].status \in {"OPEN"} \cup Terminal ]_vars

\* C2: every order in open is OPEN, every order in filled is FILLED, every
\* order in cancelled is CANCELLED, and no order is in two of the collections.
C2_CollectionsMatchStatus ==
  /\ \A o \in Range(mgr.open) : mgr.orders[o].status = "OPEN"
  /\ \A o \in Range(mgr.filled) : mgr.orders[o].status = "FILLED"
  /\ \A o \in Range(mgr.cancelled) : mgr.orders[o].status = "CANCELLED"
  /\ Range(mgr.open) \cap Range(mgr.filled) = {}
  /\ Range(mgr.open) \cap Range(mgr.cancelled) = {}
  /\ Range(mgr.filled) \cap Range(mgr.cancelled) = {}

\* C6: no order ever has a filled quantity above its size.
C6_FilledWithinSize ==
  \A o \in OrderSet : mgr.orders[o].filled_qty <= mgr.orders[o].size

\* the quantity reported by the fills of fs for market mk and inventory key k
RECURSIVE ReportedQty(_, _, _, _)
ReportedQty(fs, orders, mk, k) ==
  IF fs = <<>> THEN 0
  ELSE (IF orders[Head(fs).order_id].market_id = mk /\ InvKey(Head(fs).side) = k
        THEN Head(fs).filled_qty ELSE 0)
       + ReportedQty(Tail(fs), orders, mk, k)

\* C7: while check_fills runs, every inventory entry grows by exactly the
\* quantity of the fills reported for it (YES for BUY, NO for SELL), so an
\* entry no fill is reported for does not change.
C7_InventoryGrowsByReportedQty ==
  [][ (cf.active /\ cf'.active) =>
        \A mk \in Markets, k \in {"YES", "NO"} :
          mgr'.inventory[mk][k] - mgr.inventory[mk][k]
            = ReportedQty(SubSeq(cf'.fills, Len(cf.fills) + 1, Len(cf'.fills)),
                          mgr'.orders, mk, k) ]_vars

Stale(o, max_age) == now - mgr.orders[o].created_at > max_age

\* C8 as claimed: after cancel_stale(max_age) no stale order is open, every
\* fresh order that was open is open, and the count is the number removed.
C8_StaleAllRemoved ==
  \A max_age \in MaxAges, gp \in GasPrices,
     venue_ok \in [Range(mgr.open) -> CancelResponses(client)] :
    LET r == cancel_stale(mgr, client, max_age, now, venue_ok, gp)
    IN  /\ \A o \in Range(r.mgr.open) : ~Stale(o, max_age)
        /\ \A o \in Range(mgr.open) : ~Stale(o, max_age) => InSeq(r.mgr.open, o)
        /\ r.cancelled = Cardinality(Range(mgr.open) \ Range(r.mgr.open))

\* C8 as amended: cancel_stale(max_age) removes (as CANCELLED) exactly the
\* stale open orders whose cancellation the venue confirmed; stale orders the
\* venue refused to cancel and all fresh orders stay open; the count is the
\* number removed.
C8_StaleConfirmedRemoved ==
  \A max_age \in MaxAges, gp \in GasPrices,
     venue_ok \in [Range(mgr.open) -> CancelResponses(client)] :
    LET r == cancel_stale(mgr, client, max_age, now, venue_ok, gp)
    IN  /\ \A o \in Range(mgr.open) :
             IF Stale(o, max_age) /\ venue_ok[o]
             THEN /\ ~InSeq(r.mgr.open, o)
                  /\ r.mgr.orders[o].status = "CANCELLED"
             ELSE /\ InSeq(r.mgr.open, o)
                  /\ r.mgr.orders[o] = mgr.orders[o]
        /\ Range(r.mgr.open) \subseteq Range(mgr.open)
        /\ r.cancelled = Cardinality(Range(mgr.open) \ Range(r.mgr.open))

\* cancel_stale has just cancelled a stale order
C8_Witness ==
  /\ last.op = "cancel_stale"
  /\ last.ret = 1
  /\ \E o \in Range(mgr.cancelled) : Stale(o, 0)

\* C9: cancel_order on an id that is not open returns false and changes
\* nothing; on an open id the venue agrees to cancel it returns true, removes
\* the order from open, marks it CANCELLED and appends it to cancelled.
C9_CancelOrderContract ==
  \A oid \in OrderIds, venue_ok \in CancelResponses(client), gp \in GasPrices :
    LET r == cancel_order(mgr, client, oid, venue_ok, gp)
    IN  /\ ~InSeq(mgr.open, oid) => (r.ok = FALSE /\ r.mgr = mgr)
        /\ (InSeq(mgr.open, oid) /\ venue_ok) =>
             /\ r.ok = TRUE
             /\ ~InSeq(r.mgr.open, oid)
             /\ r.mgr.orders[oid].status = "CANCELLED"
             /\ r.mgr.cancelled = Append(mgr.cancelled, oid)

\* cancel_order was called on an order that had already left the open set
C9_Witness ==
  /\ last.op = "cancel_order"
  /\ last.ret = Bool(FALSE)
  /\ \E o \in OrderSet : mgr.orders[o].status \in Terminal

\* C10: a submission the venue rejects (or that raises) returns None, adds
\* nothing to open and leaves placed alone; an accepted one returns the order,
\* OPEN and in the open set under the id the venue assigned.
C10_SubmitOrderContract ==
  \A a \in SubmitArgs, resp \in SubmitResponses(client), gp \in GasPrices :
    LET r == submit_order(mgr, client, a[1], a[2], a[3], a[4], now, resp, gp)
    IN  /\ resp # "success" =>
             /\ r.ret = None
             /\ r.mgr.open = mgr.open
             /\ r.mgr.placed = mgr.placed
        /\ resp = "success" =>
             /\ r.ret # None
             /\ ~InSeq(mgr.open, r.ret)
             /\ InSeq(r.mgr.open, r.ret)
             /\ r.mgr.orders[r.ret].status = "OPEN"
             /\ r.mgr.orders[r.ret].market_id = a[1]
             /\ r.mgr.orders[r.ret].side = a[2]
             /\ r.mgr.placed = mgr.placed + 1

\* the venue has refused a submission
C10_Witness ==
  /\ last.op = "submit_order"
  /\ last.ret = None
  /\ client.nonce > mgr.placed

C4_RejectedUntilResumeTime ==
  /\ (last.op = "check_pre_trade" /\ last.ret = Bool(TRUE)) => utcnow >= resume_by
  /\ (rm.trading_paused /\ rm.pause_until # Absent /\ utcnow >= rm.pause_until) =>
       LET r == check_circuit_breakers(rm, utcnow).rm
       IN  /\ ~r.trading_paused
           /\ \A a \in PreTradeArgs :
                check_pre_trade(r, a[1], a[2], a[3], a[4]).reason # "Trading paused"

\* C5: only check_circuit_breakers turns trading_paused from true to false
\* (and only at or after pause_until): check_pre_trade, check_daily_loss_limit,
\* check_consecutive_losses, record_api_failure, record_api_success and
\* update_equity leave it true.
C5_OnlyBreakerCheckUnpauses ==
  [][ (rm.trading_paused /\ ~rm'.trading_paused) =>
        (last'.op = "check_circuit_breakers" /\ utcnow >= rm.pause_until) ]_vars

\* record_api_success has been called during a pause, which goes on
C5_Witness ==
  /\ last.op = "record_api_success"
  /\ rm.trading_paused
  /\ rm.api_failure_count = 0

\* C11: the executor never holds two open orders for the same token and side.
C11_OneOpenOrderPerTokenSide ==
  \A o1, o2 \in Range(ex.open_ids) :
    (ex.orders[o1].token_id = ex.orders[o2].token_id
       /\ ex.orders[o1].side = ex.orders[o2].side) => o1 = o2


\* C12: under every interleaving of get_nonce calls on one client the
\* nonces come out in strictly increasing order and no two calls return
\* the same nonce.
C12_NoncesIncreasingAndDistinct ==
  /\ \A i, j \in DOMAIN nc.issued : i < j => nc.issued[i] < nc.issued[j]
  /\ \A i, j \in DOMAIN nc.handed : i # j => nc.handed[i] # nc.handed[j]

\* two calls that overlapped (the second began before the first returned)
\* have both returned
C12_Witness ==
  /\ Len(nc.handed) >= 2
  /\ nc.handed[1] > nc.handed[2]


\* C13: every order handed to the venue has a price strictly between 0
\* and 1: both quotes of calculate_quotes for a mid strictly inside (0,1),
\* and both orders of a pass of main's loop over a book whose midpoint is
\* strictly inside (0,1).
C13_PricesStrictlyInside ==
  /\ (calc.fn = "calculate_quotes" /\ calc.done /\ 0 < calc.args.mid /\ calc.args.mid < One)
       => \A q \in Range(calc.out) : 0 < q.price /\ q.price < QuoteDen
  /\ (calc.fn = "main" /\ calc.done
        /\ 0 < book_midpoint(calc.args.bids, calc.args.asks)
        /\ book_midpoint(calc.args.bids, calc.args.asks) < One)
       => \A o \in Range(calc.out) : 0 < o.price /\ o.price < One

\* C14: every order a pass of main's loop submits has a size above 0.
C14_SizesPositive ==
  (calc.fn = "main" /\ calc.done) => \A o \in Range(calc.out) : o.size > 0


\* C15: in every reachable state of OrderManager the YES and the NO
\* quantity of every market's inventory are at least 0.
C15_InventoryNonNegative ==
  \A mk \in Markets : mgr.inventory[mk].YES >= 0 /\ mgr.inventory[mk].NO >= 0

\* a fill has moved an inventory quantity
C15_Witness ==
  /\ mgr.filled # <<>>
  /\ \E mk \in Markets : mgr.inventory[mk].YES > 0 \/ mgr.inventory[mk].NO > 0


\* the call in calc is a finished call of fn
Done(fn) == calc.fn = fn /\ calc.done

\* C16: calculate_optimal_spread returns 0 exactly when market_spread_bps
\* is below min_rebate_spread_bps, and otherwise a spread within
\* [min_spread_bps, max_spread_bps].
C16_OptimalSpreadRange ==
  Done("calculate_optimal_spread") =>
    LET a == calc.args
        tight == a.market_spread_bps < 10 * a.config.min_rebate_spread_bps
    IN  /\ (calc.out[1] = 0) <=> tight
        /\ ~tight => /\ a.config.min_spread_bps <= calc.out[1]
                     /\ calc.out[1] <= a.config.max_spread_bps

\* a market wide enough to quote in, the spread capped at max_spread_bps
C16_Witness ==
  /\ Done("calculate_optimal_spread")
  /\ calc.args.market_spread_bps >= 10 * calc.args.config.min_rebate_spread_bps
  /\ calc.out[1] = calc.args.config.max_spread_bps
  /\ calc.args.volatility_bps * calc.args.config.vol_multiplier
       > 10 * calc.args.config.max_spread_bps

\* C17: calculate_positioning_factor returns a value in [0.2, 0.8], and
\* for a fixed spread it never falls when |skew| grows.
C17_PositioningRangeAndMonotone ==
  Done("calculate_positioning_factor") =>
    LET a == calc.args
    IN  /\ 2 * PosDen <= 10 * calc.out[1]
        /\ 10 * calc.out[1] <= 8 * PosDen
        /\ \A sk \in Skews :
             Abs(sk) >= Abs(a.skew) =>
               calculate_positioning_factor(sk, a.spread_bps, a.config) >= calc.out[1]

\* a factor strictly inside the range that a larger |skew| raises
C17_Witness ==
  /\ Done("calculate_positioning_factor")
  /\ 2 * PosDen < 10 * calc.out[1]
  /\ 10 * calc.out[1] < 8 * PosDen
  /\ \E sk \in Skews :
       /\ Abs(sk) > Abs(calc.args.skew)
       /\ calculate_positioning_factor(sk, calc.args.spread_bps, calc.args.config) > calc.out[1]

\* C18: should_quote_side returns false exactly when the side is BUY and
\* skew > buy_stop_threshold, or the side is SELL and
\* skew < sell_stop_threshold; a skew equal to the threshold is quoted.
C18_ShouldQuoteSideExact ==
  Done("should_quote_side") =>
    LET a == calc.args
    IN  (calc.out[1] = Bool(FALSE)) <=>
          \/ Upper(a.side) = "BUY" /\ a.skew > a.config.buy_stop_threshold
          \/ Upper(a.side) = "SELL" /\ a.skew < a.config.sell_stop_threshold

\* a BUY at a skew equal to the buy threshold is quoted
C18_Witness ==
  /\ Done("should_quote_side")
  /\ calc.args.side = "BUY"
  /\ calc.args.skew = calc.args.config.buy_stop_threshold
  /\ calc.out[1] = Bool(TRUE)

\* C19: calculate_quote_prices returns (None, None) whenever
\* spread_bps <= 0 or mid is not strictly inside (0,1), and both prices
\* of a returned pair are strictly inside (0,1).
C19_QuotePricesInside ==
  Done("calculate_quote_prices") =>
    LET a == calc.args
    IN  /\ (a.spread_bps <= 0 \/ a.mid <= 0 \/ a.mid >= One * Micro) => calc.out = <<>>
        /\ calc.out # <<>> => /\ 0 < calc.out[1] /\ calc.out[1] < One
                              /\ 0 < calc.out[2] /\ calc.out[2] < One

\* a pair is returned whose buy price is the replacement round(mid * 0.99, 4)
C19_Witness ==
  /\ Done("calculate_quote_prices")
  /\ calc.out # <<>>
  /\ LET a == calc.args
     IN  Round(a.mid - a.spread_bps * a.positioning_factor + 5 * a.skew, Micro) >= One

\* C20: when the inputs yield a quote, a positive skew gives a buy price
\* strictly above and a sell price strictly below the quote of the same
\* inputs at skew 0.
C20_PositiveSkewMovesPrices ==
  (Done("calculate_quote_prices") /\ calc.args.skew > 0 /\ calc.out # <<>>) =>
    LET a == calc.args
        flat == calculate_quote_prices(a.mid, a.spread_bps, a.positioning_factor, 0)
    IN  flat # <<>> => calc.out[1] > flat[1] /\ calc.out[2] < flat[2]


\* the call calculate_quote_prices(mid=0.50, spread_bps=40,
\* positioning_factor=0.5, skew=0.0) has returned
HalfAt40 ==
  /\ Done("calculate_quote_prices")
  /\ calc.args = [mid |-> 50 * One, spread_bps |-> 40, positioning_factor |-> 50, skew |-> 0]

\* C21 as stated: calculate_quote_prices(0.50, 40, 0.5, 0.0) returns
\* buy = 0.4900 and sell = 0.5100.
C21_HalfAt40Is49And51 == HalfAt40 => calc.out = << 4900, 5100 >>

\* C21 amended: calculate_quote_prices(0.50, 40, 0.5, 0.0) returns
\* buy = 0.4980 and sell = 0.5020, 40 basis points of 1 apart.
C21_HalfAt40Is498And502 == HalfAt40 => calc.out = << 4980, 5020 >>

C21_Witness == HalfAt40 /\ calc.out # <<>>


\* C22: whenever calculate_quote_prices returns a pair, buy < mid < sell;
\* at zero skew the pair is symmetric about mid and sell - buy is
\* 2 * spread_bps * positioning_factor / 10000.  Each comparison is given
\* the tick that the rounding to four decimals can move a price by.
C22_PairStraddlesMid ==
  (Done("calculate_quote_prices") /\ calc.out # <<>>) =>
    LET a == calc.args
        buy == Micro * calc.out[1]
        sell == Micro * calc.out[2]
    IN  /\ buy < a.mid + Micro
        /\ a.mid < sell + Micro
        /\ a.skew = 0 =>
             /\ Abs((sell - a.mid) - (a.mid - buy)) <= Micro
             /\ Abs((sell - buy) - 2 * a.spread_bps * a.positioning_factor) <= Micro


\* C23: no step of check_fills fills an order that is open with
\* now > expires_at: such an order does not become FILLED, does not enter
\* the filled list, yields no fill and moves no inventory, even when a fill
\* for it is waiting.
C23_ExpiredOrderNeverFilled ==
  [][ cf.active =>
        \A o \in Range(mgr.open) :
          cf.t > mgr.orders[o].expires_at =>
            /\ mgr'.orders[o].status # "FILLED"
            /\ ~InSeq(mgr'.filled, o)
            /\ cf'.active => \A k \in DOMAIN cf'.fills : cf'.fills[k].order_id # o
            /\ (Range(mgr.open) \ Range(mgr'.open) = {o}) => mgr'.inventory = mgr.inventory
    ]_vars


\* C25: a step of check_fills(market) leaves every order of another market
\* as it was: same status and filled quantity, still open if it was open,
\* no fill for it, and the inventory of the other markets unchanged.
C25_OtherMarketsUntouched ==
  [][ cf.active =>
        /\ \A o \in DOMAIN mgr.orders :
             mgr.orders[o].market_id # cf.market =>
               /\ mgr'.orders[o] = mgr.orders[o]
               /\ InSeq(mgr.open, o) => InSeq(mgr'.open, o)
               /\ cf'.active => \A k \in DOMAIN cf'.fills : cf'.fills[k].order_id # o
        /\ \A mk \in Markets \ {cf.market} : mgr'.inventory[mk] = mgr.inventory[mk]
    ]_vars


\* C26: an order is FILLED, and out of the open set as a filled order,
\* only when its filled quantity has reached its size; an order filled
\* for less is still OPEN and in the open set.
C26_FilledOnlyWhenComplete ==
  \A o \in DOMAIN mgr.orders :
    LET order == mgr.orders[o]
    IN  /\ (order.status = "FILLED" \/ InSeq(mgr.filled, o)) => order.filled_qty >= order.size
        /\ (0 < order.filled_qty /\ order.filled_qty < order.size) =>
             order.status = "OPEN" /\ InSeq(mgr.open, o)


\* C27: a step of check_fills that meets a queued fill report for more
\* than the open order's remaining size does not take it over: the order
\* keeps its filled quantity and status, the inventory is unchanged, and
\* the report is only consumed by a call that ends in an error.
C27_OverfillNotAccepted ==
  [][ cf.active =>
        \A k \in DOMAIN mgr.ws_fills :
          LET fd == mgr.ws_fills[k]
              o == fd.order_id
          IN  (InSeq(mgr.open, o) /\ fd.size > mgr.orders[o].size - mgr.orders[o].filled_qty) =>
                /\ mgr'.orders[o].filled_qty = mgr.orders[o].filled_qty
                /\ mgr'.orders[o].status \in {mgr.orders[o].status, "EXPIRED"}
                /\ mgr'.inventory = mgr.inventory
                /\ ~InSeq(mgr'.ws_fills, fd) => last'.raised
    ]_vars


\* C28: for every quote, _plan_cancel_replace cancels exactly the open
\* orders on the quote's token and side whose price moved by more than
\* 0.5% or whose size moved by more than 10%, and places the quote exactly
\* when there is no open order on its token and side or one is cancelled.
C28_PlanCancelReplaceExact ==
  \A quote \in TickQuotes :
    LET plan == plan_cancel_replace(ex, quote)
        same == { o \in Range(ex.open_ids) :
                    ex.orders[o].token_id = quote.token_id /\ ex.orders[o].side = quote.side }
        moved == { o \in same : should_replace(ex.orders[o], quote) }
    IN  /\ Range(plan.to_cancel) = moved
        /\ (plan.to_place = <<quote>>) <=> (same = {} \/ moved # {})

\* C29: when trading is not paused, check_pre_trade returns the result of the
\* first failing check among exposure, position size and inventory skew, in
\* that order; it allows the trade only when all three pass; and a call of
\* it leaves the RiskState as it was.
C29_PreTradeFirstFailure ==
  /\ [](~rm.trading_paused =>
         \A a \in PreTradeArgs :
           LET res == check_pre_trade(rm, a[1], a[2], a[3], a[4])
               e   == check_exposure(a[1], a[2], a[3])
               p   == check_position_size(a[2])
               k   == check_inventory_skew(a[4])
           IN  /\ ~e.allowed => res = e
               /\ e.allowed /\ ~p.allowed => res = p
               /\ e.allowed /\ p.allowed /\ ~k.allowed => res = k
               /\ res.allowed <=> (e.allowed /\ p.allowed /\ k.allowed))
  /\ [][last'.op = "check_pre_trade" => rm' = rm]_vars

\* check_pre_trade has just refused an order while trading was not paused
C29_Witness ==
  /\ last.op = "check_pre_trade"
  /\ last.ret = Bool(FALSE)
  /\ ~rm.trading_paused
  /\ \E a \in PreTradeArgs :
       /\ ~check_exposure(a[1], a[2], a[3]).allowed
       /\ ~check_position_size(a[2]).allowed

\* C30: check_daily_loss_limit pauses trading, with the resume time at now +
\* stop_loss_cooldown_minutes, exactly when peak_equity > 0 and
\* -daily_pnl / peak_equity >= stop_loss_pct / 100; otherwise it returns
\* allowed = true and leaves the pause state as it was.
C30_DailyLossLimitExact ==
  \A daily_pnl \in Pnls :
    LET r      == check_daily_loss_limit(rm, daily_pnl, utcnow)
        breach == /\ rm.peak_equity > 0
                  /\ (-daily_pnl) * 100 >= stop_loss_pct * rm.peak_equity
    IN  IF breach
        THEN /\ ~r.allowed
             /\ r.rm.trading_paused
             /\ r.rm.pause_until = utcnow + stop_loss_cooldown_minutes
        ELSE /\ r.allowed
             /\ r.rm.trading_paused = rm.trading_paused
             /\ r.rm.pause_until = rm.pause_until
             /\ r.rm.pause_reason = rm.pause_reason

\* the limit has just paused trading on a loss of exactly stop_loss_pct
C30_Witness ==
  /\ last.op = "check_daily_loss_limit"
  /\ last.ret = Bool(FALSE)
  /\ rm.peak_equity * stop_loss_pct = 100 * 1000
  /\ rm.trading_paused
  /\ rm.pause_reason = "Daily loss limit reached"
  /\ rm.pause_until = utcnow + stop_loss_cooldown_minutes

\* C24: once a shutdown() call has completed with a successful cancel-all,
\* the executor's open-order set is empty and no order is posted any more,
\* however the shutdown interleaves with a refresh of the quotes or a status
\* update in flight; and a failed cancel-all leaves the open-order set as it
\* was.
ShutdownCompleted == \E c \in Shutdowns : tk.sd[c] = "done" /\ tk.ok[c]

C24_ShutdownLeavesNothingOpen ==
  /\ [](ShutdownCompleted => ex.open_ids = <<>>)
  /\ [][ShutdownCompleted => venue'.posts = venue.posts]_vars
  /\ [][\A c \in Shutdowns :
          tk.sd[c] = "cancelling" /\ tk'.sd[c] = "closing" /\ ~tk'.ok[c]
            => ex'.open_ids = ex.open_ids]_vars

\* C31: check_consecutive_losses trips the breaker, pausing for 30 minutes,
\* exactly on a call with is_loss that brings the streak of losses since the
\* last call without is_loss to 3 or more; a call without is_loss resets the
\* streak to 0 and trips nothing; no other operation touches the streak.
C31_ConsecutiveLossesExact ==
  /\ [](\A is_loss \in BOOLEAN :
         LET r      == check_consecutive_losses(rm, is_loss, utcnow)
             streak == IF is_loss THEN rm.consecutive_losses + 1 ELSE 0
         IN  /\ r.rm.consecutive_losses = streak
             /\ IF streak >= 3
                THEN /\ ~r.allowed
                     /\ r.rm.trading_paused
                     /\ r.rm.pause_until = utcnow + 30
                ELSE /\ r.allowed
                     /\ r.rm.trading_paused = rm.trading_paused
                     /\ r.rm.pause_until = rm.pause_until
                     /\ r.rm.pause_reason = rm.pause_reason)
  /\ [][rm'.consecutive_losses # rm.consecutive_losses
          => last'.op = "check_consecutive_losses"]_vars

\* the third loss in a row has just paused trading
C31_Witness ==
  /\ last.op = "check_consecutive_losses"
  /\ last.ret = Bool(FALSE)
  /\ rm.consecutive_losses = 3
  /\ rm.trading_paused
  /\ rm.pause_reason = "consecutive losses"
  /\ rm.pause_until = utcnow + 30

\* C32: record_api_failure trips the breaker, pausing for 5 minutes, exactly
\* when it records the fifth or a later failure since the last
\* record_api_success; record_api_success resets the count of failures to 0
\* and leaves the pause state as it was; no other operation touches the count.
C32_ApiFailuresExact ==
  /\ [](LET f == record_api_failure(rm, utcnow)
            s == record_api_success(rm)
        IN  /\ f.api_failure_count = rm.api_failure_count + 1
            /\ IF rm.api_failure_count + 1 >= 5
               THEN /\ f.trading_paused
                    /\ f.pause_until = utcnow + 5
               ELSE /\ f.trading_paused = rm.trading_paused
                    /\ f.pause_until = rm.pause_until
                    /\ f.pause_reason = rm.pause_reason
            /\ s.api_failure_count = 0
            /\ s.trading_paused = rm.trading_paused
            /\ s.pause_until = rm.pause_until
            /\ s.pause_reason = rm.pause_reason)
  /\ [][rm'.api_failure_count # rm.api_failure_count
          => last'.op \in {"record_api_failure", "record_api_success"}]_vars

\* the fifth failure in a row has just paused trading
C32_Witness ==
  /\ last.op = "record_api_failure"
  /\ rm.api_failure_count = 5
  /\ rm.trading_paused
  /\ rm.pause_reason = "API failures"
  /\ rm.pause_until = utcnow + 5

\* C33: once a breaker has paused trading until T, trading stays paused
\* until the clock reads T or later, whatever other breakers trip meanwhile:
\* a trip during a pause never moves pause_until to an earlier time.
C33_PauseNeverShortened ==
  /\ [][(rm.trading_paused /\ rm'.trading_paused)
          => rm'.pause_until >= rm.pause_until]_vars
  /\ [][(rm.trading_paused /\ ~rm'.trading_paused)
          => utcnow >= resume_by]_vars

\* C34: the size of QuoteEngine's quotes is min(default_size, max_size),
\* halved when |total exposure| exceeds 50% of max_exposure_usd and quartered
\* when it exceeds 80%, and never below min_size.
C34_SizeTiers ==
  Done("calculate_quotes") =>
    LET te   == Abs(calc.args.total_exposure_usd)
        base == Min(default_size, max_size)
        four == IF 10 * te > 8 * max_exposure_usd THEN base
                ELSE IF 2 * te > max_exposure_usd THEN 2 * base
                ELSE 4 * base
    IN  \A i \in DOMAIN calc.out :
          4 * calc.out[i].size = Max(four, 4 * min_size)

\* C35: in the loop of run_bot.main quoting goes on on both sides: for each
\* market and side, once that side's order has been filled, cancelled or has
\* expired, and as long as the exposure and inventory limits permit, a new
\* order for that side is submitted on a later tick.
HasOpen(mk, side) ==
  \E o \in Range(mgr.open) :
    mgr.orders[o].market_id = mk /\ mgr.orders[o].side = side

SideEnded(mk, side) ==
  /\ ~HasOpen(mk, side)
  /\ \E o \in DOMAIN mgr.orders :
       mgr.orders[o].market_id = mk /\ mgr.orders[o].side = side

LimitsPermit(mk, side) ==
  /\ Abs(net_exposure(mgr, 1)) <= max_net
  /\ inv_value(mgr.inventory[mk].YES) <= max_per_mkt
  /\ inv_value(mgr.inventory[mk].NO) <= max_per_mkt
  /\ inv_value(mgr.inventory[mk][InvKey(side)]) + order_size_usd <= max_inv_usd

C35_QuotingContinues ==
  \A mk \in Markets, side \in Sides :
    (SideEnded(mk, side) /\ LimitsPermit(mk, side))
      ~> (HasOpen(mk, side) \/ ~LimitsPermit(mk, side))

C37_PauseFieldsConsistent ==
  /\ rm.trading_paused <=> (rm.pause_until # Absent /\ rm.pause_reason # "")
  /\ ~rm.trading_paused => (rm.pause_reason = "" /\ rm.pause_until = Absent)

\* a pause has been ended by check_circuit_breakers after the cooldown
C37_Witness ==
  /\ last.op = "check_circuit_breakers"
  /\ resume_by # Absent
  /\ utcnow >= resume_by
  /\ ~rm.trading_paused

\* C38: under any interleaving of start and stop calls at most one loop
\* thread is alive at a time: a start makes no thread run while one is alive,
\* and the thread that a successful stop waited for has ended.
C38_OneLoopThread ==
  /\ [](Cardinality({t \in ThreadIds : is_alive(bc, t)}) <= 1)
  /\ [][(\E t \in ThreadIds : ~is_alive(bc, t) /\ is_alive(bc', t))
          => (\A u \in ThreadIds : ~is_alive(bc, u))]_vars
  /\ [](\A c \in Callers :
          bc.ret[c] = "stopped" => ~is_alive(bc, bc.joined[c]))

\* C39: across the await points of execute_quotes, update_order_status and
\* cancel_all_orders, every order in _open_orders has status "open", every
\* order in _order_history has status "cancelled" or "filled" and is there
\* once, no order is in both, and a status that has become "cancelled" or
\* "filled" never changes.
C39_ExecutorBooks ==
  /\ [](/\ \A i \in DOMAIN ex.open_ids :
             ex.orders[ex.open_ids[i]].status = "open"
        /\ \A i \in DOMAIN ex.order_history :
             ex.orders[ex.order_history[i]].status \in {"cancelled", "filled"}
        /\ \A i, j \in DOMAIN ex.order_history :
             ex.order_history[i] = ex.order_history[j] => i = j
        /\ \A i \in DOMAIN ex.open_ids :
             ~InSeq(ex.order_history, ex.open_ids[i]))
  /\ [][\A o \in DOMAIN ex.orders :
          ex.orders[o].status \in {"cancelled", "filled"}
            => ex'.orders[o].status = ex.orders[o].status]_vars

\* C40: OrderManager's counters account for every order: placed = |open| +
\* filled_count + cancelled_count + the number of orders expired,
\* filled_count is the length of filled, which lists no order twice, and
\* cancelled_count is the length of cancelled.
C40_CountersAccount ==
  /\ mgr.placed = Len(mgr.open) + mgr.filled_count + mgr.cancelled_count
                    + Cardinality({o \in DOMAIN mgr.orders :
                                     mgr.orders[o].status = "EXPIRED"})
  /\ mgr.filled_count = Len(mgr.filled)
  /\ \A i, j \in DOMAIN mgr.filled : mgr.filled[i] = mgr.filled[j] => i = j
  /\ mgr.cancelled_count = Len(mgr.cancelled)

====
